---- MODULE Spec2Model ----
(***************************************************************************)
(* Warehouse loading pipeline of the BI project (src/bi/warehouse.py,      *)
(* src/bi/staging.py): staged JSON lines are normalised and loaded into a  *)
(* star schema (dimensions, fact_event, bridge tables) held in SQLite.     *)
(*                                                                         *)
(* JSON values are tagged records: null, str, num (a rational num/den),    *)
(* obj (a function from keys to values) and list (a sequence).  A staged   *)
(* line that is not JSON text has the tag "unparseable".  Floats are       *)
(* modelled as exact rationals.                                            *)
(***************************************************************************)
EXTENDS Integers, Sequences, FiniteSets, TLC

VARIABLES
    staging_events,      \* rows of staging_events, in id order
    staging_dog_breeds,  \* rows of staging_dog_breeds, in id order
    staging_cat_breeds,  \* rows of staging_cat_breeds, in id order
    wh,                  \* the committed warehouse database: table -> set of rows
    conn,                \* the open warehouse connection (uncommitted view)
    pc,                  \* "idle", "dogs", "cats", "breeds_done", "events", "events_done"
    idx,                 \* number of rows of the current cursor already consumed
    op,                  \* top-level call in progress: "none", "build", "breeds", "events"
    built,               \* build_warehouse calls ended since staging last changed
    raised,              \* the last top-level call ended with an exception
    fcall                \* a call of one function on its own: [fn, args, done, result]

vars == <<staging_events, staging_dog_breeds, staging_cat_breeds, wh, conn, pc,
          idx, op, built, raised, fcall>>

-----------------------------------------------------------------------------
(* Bounds of the model *)

\* rows held by the three staging tables together
MaxStaged == 3
\* build_warehouse calls counted since the staging tables last changed
MaxBuilt == 2
\* entries of a reaction, outcome or drug list handed to an extractor
MaxEntries == 2
\* characters of a breed string handed to the breed matcher
MaxBreedLen == 4
\* names in the reference list handed to the breed matcher
MaxRefs == 2

-----------------------------------------------------------------------------
(* JSON values and the Python operations the loader applies to them *)

JNull == [t |-> "null", s |-> "", num |-> 0, den |-> 1]
JStr(x) == [t |-> "str", s |-> x, num |-> 0, den |-> 1]
JNum(a, b) == [t |-> "num", s |-> "", num |-> a, den |-> b]
JInt(a) == JNum(a, 1)
\* a JSON integer too large for a float (json.loads keeps it as an int)
JBigInt == [t |-> "bigint", s |-> "", num |-> 0, den |-> 1]
\* the floats inf and nan
JNonFinite(x) == [t |-> "nonfinite", s |-> x, num |-> 0, den |-> 1]
JObj(fields) == [t |-> "obj", f |-> fields]
JList(xs) == [t |-> "list", items |-> xs]
JEmptyObj == [t |-> "obj", f |-> [k \in {} |-> JNull]]
Unparseable == [t |-> "unparseable"]
Raise == [t |-> "raise"]

IsNone(j) == j.t = "null"
IsStr(j) == j.t = "str"
IsDict(j) == j.t = "obj"
IsList(j) == j.t = "list"

\* Python truth value of a JSON value
Truthy(j) ==
    CASE j.t = "null" -> FALSE
      [] j.t = "str" -> j.s # ""
      [] j.t = "num" -> j.num # 0
      [] j.t = "obj" -> DOMAIN j.f # {}
      [] j.t = "list" -> j.items # <<>>
      [] OTHER -> TRUE

\* Python "a or b"
PyOr(a, b) == IF Truthy(a) THEN a ELSE b

\* dict.get(key): None when the key is absent
Get(o, k) == IF k \in DOMAIN o.f THEN o.f[k] ELSE JNull

\* dict.get(key, default)
GetDefault(o, k, d) == IF k \in DOMAIN o.f THEN o.f[k] ELSE d

\* a lower() that leaves every letter as it is
LowerKeepsCase(s) == s

\* str.lower() on the strings of the model's vocabulary
LowerTable ==
    ("Dog" :> "dog") @@ ("DOG" :> "dog") @@ ("Cat" :> "cat") @@ ("LBS" :> "lbs")
    @@ ("Lbs" :> "lbs") @@ ("Years" :> "years") @@ ("Days" :> "days")
    @@ ("Weeks" :> "weeks") @@ ("KG" :> "kg") @@ ("LB" :> "lb") @@ ("Pound" :> "pound")
    @@ ("POUNDS" :> "pounds") @@ ("YEAR" :> "year") @@ ("Day" :> "day")
    @@ ("Week" :> "week") @@ ("Month" :> "month") @@ ("MONTHS" :> "months")
    @@ ("Died" :> "died") @@ ("DIED" :> "died") @@ ("Euthanized" :> "euthanized")
    @@ ("Recovered" :> "recovered") @@ ("Unknown" :> "unknown") @@ ("None" :> "none")
    @@ ("Labrador Retriever" :> "labrador retriever") @@ ("Siamese" :> "siamese")

Lower(s) == IF s \in DOMAIN LowerTable THEN LowerTable[s] ELSE s

\* str.strip() on the strings of the model's vocabulary
StripTable ==
    (" Vomiting " :> "Vomiting") @@ (" " :> "") @@ ("Labrador " :> "Labrador")
    @@ (" Recovered" :> "Recovered") @@ (" Ibuprofen " :> "Ibuprofen")

Strip(s) == IF s \in DOMAIN StripTable THEN StripTable[s] ELSE s

\* float(str) on the finite numeric strings of the model's vocabulary
FloatTable ==
    ("0" :> <<0, 1>>) @@ ("1" :> <<1, 1>>) @@ ("2" :> <<2, 1>>) @@ ("3" :> <<3, 1>>)
    @@ ("10" :> <<10, 1>>) @@ ("20" :> <<20, 1>>) @@ ("500" :> <<500, 1>>)
    @@ ("1.5" :> <<3, 2>>) @@ ("2.5" :> <<5, 2>>) @@ (" 10 " :> <<10, 1>>)

\* the strings float() reads as inf or nan
NonFiniteStrings == {"nan", "inf"}

\* float(x) under "except (TypeError, ValueError)": a float, None on a caught
\* failure, or the OverflowError of an integer beyond the float range
Float(j) ==
    CASE j.t = "num" -> j
      [] j.t = "nonfinite" -> j
      [] j.t = "bigint" -> Raise
      [] j.t = "str" /\ j.s \in DOMAIN FloatTable ->
            JNum(FloatTable[j.s][1], FloatTable[j.s][2])
      [] j.t = "str" /\ j.s \in NonFiniteStrings -> JNonFinite(j.s)
      [] OTHER -> JNull

\* str(unit) for the unit values the normalisers receive
PyStr(j) == IF j.t = "str" THEN j.s ELSE "<non-string>"

RECURSIVE Gcd(_, _)
Gcd(a, b) == IF b = 0 THEN a ELSE Gcd(b, a % b)

Abs(a) == IF a < 0 THEN -a ELSE a

\* a float product j * a / b, as a rational in lowest terms; inf and nan
\* stay what they are
Mul(j, a, b) ==
    IF j.t = "nonfinite" THEN j
    ELSE LET n == j.num * a
             d == j.den * b
             g == Gcd(Abs(n), d)
         IN  JNum(n \div g, d \div g)

\* equality of two floats (rationals in lowest terms)
RatEq(x, y) == x.t = "num" /\ y.t = "num" /\ x.num = y.num /\ x.den = y.den

\* round(x) of a finite float: Python rounds halves to the even neighbour
Round(j) ==
    LET q == j.num \div j.den
        r == j.num % j.den
    IN  IF 2 * r < j.den THEN q
        ELSE IF 2 * r > j.den THEN q + 1
        ELSE IF q % 2 = 0 THEN q ELSE q + 1

\* int(round(x)): inf raises OverflowError and nan ValueError
IntRound(j) == IF j.t = "nonfinite" THEN Raise ELSE JInt(Round(j))

\* characters of the strings that the model iterates over
CharsTable == ("ab" :> <<"a", "b">>) @@ ("x" :> <<"x">>)

Chars(s) == IF s \in DOMAIN CharsTable THEN CharsTable[s] ELSE <<s>>

\* keys of the model's objects in the order a dict yields them
KeyOrder ==
    <<"veddra_term_name", "veddra_term", "reaction_name", "medical_status", "outcome",
      "outcome_name", "name", "active_ingredients", "active_ingredient", "min", "max",
      "value", "weight", "age", "unit">>

\* "for item in x": the items, or the TypeError of a value that is not iterable
Iterate(j) ==
    CASE j.t = "list" -> [raised |-> FALSE, items |-> j.items]
      [] j.t = "str" ->
            [raised |-> FALSE,
             items |-> [i \in DOMAIN Chars(j.s) |-> JStr(Chars(j.s)[i])]]
      [] j.t = "obj" ->
            [raised |-> FALSE,
             items |-> LET ks == SelectSeq(KeyOrder, LAMBDA k : k \in DOMAIN j.f)
                       IN  [i \in DOMAIN ks |-> JStr(ks[i])]]
      [] OTHER -> [raised |-> TRUE, items |-> <<>>]

-----------------------------------------------------------------------------
(* Unit normaliser *)

PoundUnits == {"lb", "lbs", "pound", "pounds"}
YearUnits == {"year", "years"}
DayUnits == {"day", "days"}
WeekUnits == {"week", "weeks"}
MonthUnits == {"month", "months"}

\* 0.45359237 as the rational LbNum / LbDen
LbNum == 45359237
LbDen == 100000000

\* the value and unit the normalisers read from a scalar or an object
RawValue(v, last) ==
    IF IsDict(v)
    THEN PyOr(PyOr(PyOr(Get(v, "min"), Get(v, "max")), Get(v, "value")), Get(v, last))
    ELSE v

\* the unit argument alone, the object's own unit ignored
RawUnitArgOnly(v, u) == u

RawUnit(v, u) == IF IsDict(v) THEN PyOr(u, Get(v, "unit")) ELSE u

normalize_weight(weight_value, weight_unit) ==
    IF IsNone(weight_value) \/ weight_value = JStr("") THEN JNull
    ELSE LET unit == RawUnit(weight_value, weight_unit)
             value == Float(RawValue(weight_value, "weight"))
         IN  IF value = Raise THEN Raise
             ELSE IF IsNone(value) THEN JNull
             ELSE IF ~Truthy(unit) THEN value
             ELSE IF Lower(PyStr(unit)) \in PoundUnits THEN Mul(value, LbNum, LbDen)
             ELSE value

normalize_age(age_value, age_unit) ==
    IF IsNone(age_value) \/ age_value = JStr("") THEN JNull
    ELSE LET unit == RawUnit(age_value, age_unit)
             value == Float(RawValue(age_value, "age"))
         IN  IF value = Raise THEN Raise
             ELSE IF IsNone(value) THEN JNull
             ELSE IF ~Truthy(unit) THEN value
             ELSE IF Lower(PyStr(unit)) \in YearUnits THEN Mul(value, 12, 1)
             ELSE IF Lower(PyStr(unit)) \in DayUnits THEN Mul(value, 1, 30)
             ELSE value

normalize_days_to_reaction(entry) ==
    LET timing == Get(entry, "time_between_drug_administration_and_reaction")
    IN  IF ~IsDict(timing) THEN JNull
        ELSE LET value == Get(timing, "time_value")
                 u == PyOr(Get(timing, "time_unit"), JStr(""))
             IN  IF ~IsStr(u) THEN Raise
                 ELSE LET unit == Lower(u.s)
                          numeric == Float(value)
                      IN  IF numeric = Raise THEN Raise
                          ELSE IF IsNone(numeric) THEN JNull
                          ELSE IF unit \in DayUnits THEN IntRound(numeric)
                          ELSE IF unit \in WeekUnits THEN IntRound(Mul(numeric, 7, 1))
                          ELSE IF unit \in MonthUnits THEN IntRound(Mul(numeric, 30, 1))
                          ELSE JNull

-----------------------------------------------------------------------------
(* Entity extractor *)

\* the first key of keys whose value is a string, blank or not
RECURSIVE FirstNameBlankToo(_, _)
FirstNameBlankToo(item, keys) ==
    IF keys = <<>> THEN JNull
    ELSE LET value == Get(item, Head(keys))
         IN  IF IsStr(value) THEN (IF Strip(value.s) # "" THEN JStr(Strip(value.s)) ELSE JNull)
             ELSE FirstNameBlankToo(item, Tail(keys))

\* the first key of keys whose value is a non-blank string, stripped; JNull if none
RECURSIVE FirstName(_, _)
FirstName(item, keys) ==
    IF keys = <<>> THEN JNull
    ELSE LET value == Get(item, Head(keys))
         IN  IF IsStr(value) /\ Strip(value.s) # "" THEN JStr(Strip(value.s))
             ELSE FirstName(item, Tail(keys))

\* the breed name with a breed given as an object ignored
extract_breed_name_string_only(animal) ==
    LET breed == Get(animal, "breed")
    IN  IF IsStr(breed) THEN (IF Strip(breed.s) # "" THEN JStr(Strip(breed.s)) ELSE JNull)
        ELSE JNull

extract_breed_name(animal) ==
    LET breed == Get(animal, "breed")
    IN  IF IsStr(breed) THEN (IF Strip(breed.s) # "" THEN JStr(Strip(breed.s)) ELSE JNull)
        ELSE IF IsDict(breed) THEN FirstName(breed, <<"breed_name", "breed_component", "name">>)
        ELSE JNull

\* the loop body shared by _extract_reactions and _extract_outcomes
RECURSIVE NamesOf(_, _)
NamesOf(items, keys) ==
    IF items = <<>> THEN <<>>
    ELSE LET item == Head(items)
             rest == NamesOf(Tail(items), keys)
         IN  IF IsDict(item)
             THEN (IF IsNone(FirstName(item, keys)) THEN rest
                   ELSE <<FirstName(item, keys).s>> \o rest)
             ELSE IF IsStr(item) THEN <<Strip(item.s)>> \o rest
             ELSE rest

ReactionKeys == <<"veddra_term_name", "veddra_term", "reaction_name", "name">>
OutcomeKeys == <<"medical_status", "outcome", "outcome_name", "name">>

\* [raised, names]: the names, or the TypeError of iterating a non-iterable
extract_reactions(entry) ==
    LET it == Iterate(PyOr(GetDefault(entry, "reaction", JList(<<>>)), JList(<<>>)))
    IN  [raised |-> it.raised, names |-> NamesOf(it.items, ReactionKeys)]

extract_outcomes(entry) ==
    LET it == Iterate(PyOr(GetDefault(entry, "outcome", JList(<<>>)), JList(<<>>)))
    IN  [raised |-> it.raised, names |-> NamesOf(it.items, OutcomeKeys)]

\* the names of one drug's ingredient entries
RECURSIVE IngredientNames(_)
IngredientNames(items) ==
    IF items = <<>> THEN <<>>
    ELSE LET ingredient == Head(items)
             rest == IngredientNames(Tail(items))
         IN  IF IsDict(ingredient)
             THEN (LET name == Get(ingredient, "name")
                   IN  IF IsStr(name) /\ Strip(name.s) # "" THEN <<Strip(name.s)>> \o rest
                       ELSE rest)
             ELSE IF IsStr(ingredient) THEN <<Strip(ingredient.s)>> \o rest
             ELSE rest

\* the ingredients of the drugs with the singular field never read
RECURSIVE DrugNamesPluralOnly(_)
DrugNamesPluralOnly(drugs) ==
    IF drugs = <<>> THEN [raised |-> FALSE, names |-> <<>>]
    ELSE LET drug == Head(drugs)
         IN  IF ~IsDict(drug) THEN DrugNamesPluralOnly(Tail(drugs))
             ELSE LET it == Iterate(PyOr(GetDefault(drug, "active_ingredients", JList(<<>>)),
                                         JList(<<>>)))
                      rest == DrugNamesPluralOnly(Tail(drugs))
                  IN  IF it.raised THEN [raised |-> TRUE, names |-> <<>>]
                      ELSE [raised |-> rest.raised,
                            names |-> IngredientNames(it.items) \o rest.names]

RECURSIVE DrugNames(_)
DrugNames(drugs) ==
    IF drugs = <<>> THEN [raised |-> FALSE, names |-> <<>>]
    ELSE LET drug == Head(drugs)
         IN  IF ~IsDict(drug) THEN DrugNames(Tail(drugs))
             ELSE LET it == Iterate(PyOr(PyOr(GetDefault(drug, "active_ingredients", JList(<<>>)),
                                              GetDefault(drug, "active_ingredient", JList(<<>>))),
                                         JList(<<>>)))
                      rest == DrugNames(Tail(drugs))
                  IN  IF it.raised THEN [raised |-> TRUE, names |-> <<>>]
                      ELSE [raised |-> rest.raised,
                            names |-> IngredientNames(it.items) \o rest.names]

extract_active_ingredients(entry) ==
    LET it == Iterate(PyOr(GetDefault(entry, "drug", JList(<<>>)), JList(<<>>)))
    IN  IF it.raised THEN [raised |-> TRUE, names |-> <<>>]
        ELSE DrugNames(it.items)

-----------------------------------------------------------------------------
(* The warehouse schema and the SQLite statements the loader issues *)

DimTables == {"dim_breed", "dim_reaction", "dim_outcome", "dim_active_ingredient", "dim_geo"}
BridgeTables == {"bridge_event_reaction", "bridge_event_outcome", "bridge_event_ingredient"}
Tables == DimTables \cup {"fact_event"} \cup BridgeTables

\* the INTEGER PRIMARY KEY column of a table (its rowid); bridge tables have
\* a composite primary key and an unnamed rowid
KeyCol(table) ==
    CASE table = "dim_breed" -> "breed_key"
      [] table = "dim_reaction" -> "reaction_key"
      [] table = "dim_outcome" -> "outcome_key"
      [] table = "dim_active_ingredient" -> "ingredient_key"
      [] table = "dim_geo" -> "geo_key"
      [] table = "fact_event" -> "event_key"
      [] OTHER -> "rowid"

\* the schema with the bridge tables' composite primary keys left out
UniqueColsNoBridgeKey(table) ==
    CASE table = "dim_breed" -> {{"breed_name", "species"}}
      [] table = "dim_reaction" -> {{"reaction_name"}}
      [] table = "dim_outcome" -> {{"outcome_name"}}
      [] table = "dim_active_ingredient" -> {{"ingredient_name"}}
      [] table = "dim_geo" -> {{"state", "country"}}
      [] table = "fact_event" -> {{"report_id"}}
      [] OTHER -> {}

\* UNIQUE and PRIMARY KEY constraints: sets of columns
UniqueCols(table) ==
    CASE table = "dim_breed" -> {{"breed_name", "species"}}
      [] table = "dim_reaction" -> {{"reaction_name"}}
      [] table = "dim_outcome" -> {{"outcome_name"}}
      [] table = "dim_active_ingredient" -> {{"ingredient_name"}}
      [] table = "dim_geo" -> {{"state", "country"}}
      [] table = "fact_event" -> {{"report_id"}}
      [] table = "bridge_event_reaction" -> {{"event_key", "reaction_key"}}
      [] table = "bridge_event_outcome" -> {{"event_key", "outcome_key"}}
      [] table = "bridge_event_ingredient" -> {{"event_key", "ingredient_key"}}

NotNullCols(table) ==
    CASE table = "dim_breed" -> {"breed_name", "species"}
      [] table = "dim_reaction" -> {"reaction_name"}
      [] table = "dim_outcome" -> {"outcome_name"}
      [] table = "dim_active_ingredient" -> {"ingredient_name"}
      [] table = "dim_geo" -> {}
      [] table = "fact_event" -> {"report_id"}
      [] table = "bridge_event_reaction" -> {"event_key", "reaction_key"}
      [] table = "bridge_event_outcome" -> {"event_key", "outcome_key"}
      [] table = "bridge_event_ingredient" -> {"event_key", "ingredient_key"}

\* the database init_warehouse creates: every table empty
init_warehouse == [table \in Tables |-> {}]

\* sqlite3.connect: a connection sees the committed database; no row inserted yet
Connect(db) == [open |-> TRUE, db |-> db, last_insert_rowid |-> 0]
Closed == [open |-> FALSE, db |-> init_warehouse, last_insert_rowid |-> 0]

SetMax(S) == IF S = {} THEN 0 ELSE CHOOSE m \in S : \A x \in S : x <= m
SetMin(S) == CHOOSE m \in S : \A x \in S : m <= x

\* the rowid an insert assigns: larger than every rowid of the table (rows
\* are never deleted).  AUTOINCREMENT also passes over the rowids that ignored
\* inserts used up; the model assigns the smallest free one, which keeps the
\* order and the identity of the keys.
NextRowid(rows, key_col) == SetMax({r[key_col] : r \in rows}) + 1

\* a schema without UNIQUE constraints: nothing conflicts
ConflictsNever(rows, table, vals) == FALSE

\* a UNIQUE constraint rejects a row equal to an existing one on all its
\* columns; NULLs are distinct from each other
Conflicts(rows, table, vals) ==
    \E U \in UniqueCols(table) :
        \E r \in rows : \A col \in U : ~IsNone(vals[col]) /\ r[col] = vals[col]

\* INSERT OR IGNORE without the constraint checks
InsertAlways(c, table, vals) ==
    LET key == NextRowid(c.db[table], KeyCol(table))
    IN  [conn |-> [c EXCEPT !.db[table] = @ \cup {(KeyCol(table) :> key) @@ vals},
                            !.last_insert_rowid = key],
         rowcount |-> 1,
         lastrowid |-> key]

\* INSERT OR REPLACE: the rows in conflict are deleted and the new row inserted
InsertOrReplace(c, table, vals) ==
    LET kept == {r \in c.db[table] : ~Conflicts({r}, table, vals)}
        key == NextRowid(c.db[table], KeyCol(table))
    IN  [conn |-> [c EXCEPT !.db[table] = kept \cup {(KeyCol(table) :> key) @@ vals},
                            !.last_insert_rowid = key],
         rowcount |-> 1,
         lastrowid |-> key]

\* INSERT OR IGNORE INTO table (cols) VALUES (vals): [conn, rowcount, lastrowid]
InsertOrIgnore(c, table, vals) ==
    IF Conflicts(c.db[table], table, vals)
       \/ \E col \in NotNullCols(table) : IsNone(vals[col])
    THEN [conn |-> c, rowcount |-> 0, lastrowid |-> c.last_insert_rowid]
    ELSE LET key == NextRowid(c.db[table], KeyCol(table))
         IN  [conn |-> [c EXCEPT !.db[table] = @ \cup {(KeyCol(table) :> key) @@ vals},
                                 !.last_insert_rowid = key],
              rowcount |-> 1,
              lastrowid |-> key]

\* the WHERE clause compared with = for NULL as well
WhereEquals(r, unique_cols) ==
    \A col \in DOMAIN unique_cols :
        ~IsNone(unique_cols[col]) /\ r[col] = unique_cols[col]

\* the WHERE clause _get_or_create_dim builds: "col IS NULL" for None, "col = ?" otherwise
WhereClause(r, unique_cols) ==
    \A col \in DOMAIN unique_cols :
        IF IsNone(unique_cols[col]) THEN IsNone(r[col]) ELSE r[col] = unique_cols[col]

\* SELECT key_col FROM table WHERE ... fetchone(): the keys found, lowest rowid first
SelectKeys(c, table, key_col, unique_cols) ==
    {r[key_col] : r \in {x \in c.db[table] : WhereClause(x, unique_cols)}}

\* [conn, key]
get_or_create_dim(c, table, key_col, unique_cols) ==
    LET found == SelectKeys(c, table, key_col, unique_cols)
    IN  IF found # {} THEN [conn |-> c, key |-> SetMin(found)]
        ELSE LET cursor == InsertOrIgnore(c, table, unique_cols)
                 again == SelectKeys(cursor.conn, table, key_col, unique_cols)
             IN  IF cursor.rowcount = 0 /\ again # {}
                 THEN [conn |-> cursor.conn, key |-> SetMin(again)]
                 ELSE [conn |-> cursor.conn, key |-> cursor.lastrowid]

\* sqlite3 binds None, str and numbers; any other parameter raises
Bindable(vals) == \A col \in DOMAIN vals : vals[col].t \in {"null", "str", "num"}

-----------------------------------------------------------------------------
(* load_breeds_from_staging: the body of its two loops *)

\* one row of staging_dog_breeds / staging_cat_breeds: [raised, conn]
load_breed(c, payload, species, purpose_key, source) ==
    IF ~IsDict(payload) THEN [raised |-> TRUE, conn |-> c]
    ELSE LET breed_name == Get(payload, "name")
             unique_cols == [breed_name |-> breed_name,
                             species |-> JStr(species),
                             group_name |-> Get(payload, "breed_group"),
                             purpose |-> Get(payload, purpose_key),
                             source |-> JStr(source)]
         IN  IF ~Truthy(breed_name) THEN [raised |-> FALSE, conn |-> c]
             ELSE IF ~Bindable(unique_cols) THEN [raised |-> TRUE, conn |-> c]
             ELSE [raised |-> FALSE,
                   conn |-> get_or_create_dim(c, "dim_breed", "breed_key", unique_cols).conn]

-----------------------------------------------------------------------------
(* load_events_from_staging: the body of its loop *)

\* one of the three bridge loops: resolve each name and link it to the event
RECURSIVE LinkAll(_, _, _, _, _, _, _)
LinkAll(c, event_key, names, dim_table, key_col, name_col, bridge_table) ==
    IF names = <<>> THEN c
    ELSE LET d == get_or_create_dim(c, dim_table, key_col, (name_col :> JStr(Head(names))))
             b == InsertOrIgnore(d.conn, bridge_table,
                                 ("event_key" :> JInt(event_key)) @@ (key_col :> JInt(d.key)))
         IN  LinkAll(b.conn, event_key, Tail(names), dim_table, key_col, name_col, bridge_table)

\* the part of the loop body after the fact insert
link_event(c, event_key, payload) ==
    LET reactions == extract_reactions(payload)
        outcomes == extract_outcomes(payload)
        ingredients == extract_active_ingredients(payload)
    IN  IF reactions.raised \/ outcomes.raised \/ ingredients.raised
        THEN [raised |-> TRUE, conn |-> c]
        ELSE LET c1 == LinkAll(c, event_key, reactions.names, "dim_reaction",
                               "reaction_key", "reaction_name", "bridge_event_reaction")
                 c2 == LinkAll(c1, event_key, outcomes.names, "dim_outcome",
                               "outcome_key", "outcome_name", "bridge_event_outcome")
                 c3 == LinkAll(c2, event_key, ingredients.names, "dim_active_ingredient",
                               "ingredient_key", "ingredient_name", "bridge_event_ingredient")
             IN  [raised |-> FALSE, conn |-> c3]

\* the report id the loader reads from a parsed payload
ReportId(payload) == PyOr(Get(payload, "unique_number"), Get(payload, "report_id"))

\* a fact insert that links the names of a record only to the row it inserted
insert_fact_new_only(c, payload, report_id, animal, breed_key, geo_key) ==
    LET row == [report_id |-> report_id,
                breed_key |-> breed_key,
                geo_key |-> JInt(geo_key),
                species |-> Get(animal, "species"),
                sex |-> Get(animal, "gender"),
                reproductive_status |-> Get(animal, "reproductive_status"),
                weight_kg |-> normalize_weight(Get(animal, "weight"), Get(animal, "weight_unit")),
                age_min |-> normalize_age(Get(animal, "age"), Get(animal, "age_unit")),
                days_to_reaction |-> normalize_days_to_reaction(payload),
                event_date |-> Get(payload, "original_receive_date")]
    IN  IF ~Bindable(row) THEN [raised |-> TRUE, conn |-> c]
        ELSE LET cursor == InsertOrIgnore(c, "fact_event", row)
             IN  IF cursor.rowcount = 0 THEN [raised |-> FALSE, conn |-> cursor.conn]
                 ELSE link_event(cursor.conn, cursor.lastrowid, payload)

\* the fact insert and what follows it
insert_fact(c, payload, report_id, animal, breed_key, geo_key) ==
    LET row == [report_id |-> report_id,
                breed_key |-> breed_key,
                geo_key |-> JInt(geo_key),
                species |-> Get(animal, "species"),
                sex |-> Get(animal, "gender"),
                reproductive_status |-> Get(animal, "reproductive_status"),
                weight_kg |-> normalize_weight(Get(animal, "weight"), Get(animal, "weight_unit")),
                age_min |-> normalize_age(Get(animal, "age"), Get(animal, "age_unit")),
                days_to_reaction |-> normalize_days_to_reaction(payload),
                event_date |-> Get(payload, "original_receive_date")]
    IN  IF ~Bindable(row) THEN [raised |-> TRUE, conn |-> c]
        ELSE LET cursor == InsertOrIgnore(c, "fact_event", row)
                 existing == SelectKeys(cursor.conn, "fact_event", "event_key",
                                        [report_id |-> report_id])
             IN  IF cursor.rowcount = 0
                 THEN (IF existing = {} THEN [raised |-> FALSE, conn |-> cursor.conn]
                       ELSE link_event(cursor.conn, SetMin(existing), payload))
                 ELSE link_event(cursor.conn, cursor.lastrowid, payload)

\* the geography key with state and country stored in each other's column
resolve_geo_swapped(c, payload) ==
    get_or_create_dim(c, "dim_geo", "geo_key",
                      [state |-> Get(payload, "country"), country |-> Get(payload, "state")])

\* the geography key of an event: [conn, key]
resolve_geo(c, payload) ==
    get_or_create_dim(c, "dim_geo", "geo_key",
                      [state |-> Get(payload, "state"), country |-> Get(payload, "country")])

\* the breed key of an event with a breed name and a species: [conn, key]
resolve_breed(c, breed_name, species) ==
    get_or_create_dim(c, "dim_breed", "breed_key",
                      [breed_name |-> breed_name,
                       species |-> JStr(Lower(species.s)),
                       group_name |-> JNull,
                       purpose |-> JNull,
                       source |-> JStr("openfda")])

\* one row of staging_events: [raised, conn]
load_event(c, line) ==
    IF ~IsDict(line) THEN [raised |-> TRUE, conn |-> c]
    ELSE LET payload == line
             report_id == ReportId(payload)
             animal == PyOr(GetDefault(payload, "animal", JEmptyObj), JEmptyObj)
         IN  IF ~Truthy(report_id) THEN [raised |-> FALSE, conn |-> c]
             ELSE IF \/ ~IsDict(animal)
                     \/ Raise \in {normalize_weight(Get(animal, "weight"),
                                                    Get(animal, "weight_unit")),
                                   normalize_age(Get(animal, "age"), Get(animal, "age_unit")),
                                   normalize_days_to_reaction(payload)}
             THEN [raised |-> TRUE, conn |-> c]
             ELSE LET species == Get(animal, "species")
                      breed_name == extract_breed_name(animal)
                      geo_cols == [state |-> Get(payload, "state"),
                                   country |-> Get(payload, "country")]
                      geo == resolve_geo(c, payload)
                  IN  IF ~Bindable(geo_cols) THEN [raised |-> TRUE, conn |-> c]
                      ELSE IF Truthy(breed_name) /\ Truthy(species)
                      THEN (IF ~IsStr(species) THEN [raised |-> TRUE, conn |-> c]
                            ELSE LET breed == resolve_breed(geo.conn, breed_name, species)
                                 IN  insert_fact(breed.conn, payload, report_id, animal,
                                                 JInt(breed.key), geo.key))
                      ELSE insert_fact(geo.conn, payload, report_id, animal, JNull, geo.key)

-----------------------------------------------------------------------------
(* Raw input files *)

Vomiting == JObj(("veddra_term_name" :> JStr("Vomiting")))
Recovered == JObj(("medical_status" :> JStr("Recovered")))

\* {"unique_number":"R1","animal":{"species":"Dog","breed":"Labrador",
\*  "weight":{"min":"10","unit":"lbs"}},"reaction":[{"veddra_term_name":"Vomiting"}],
\*  "outcome":[{"medical_status":"Recovered"}],
\*  "drug":[{"active_ingredients":[{"name":"Ibuprofen"}]}],"state":"CA","country":"US"}
EventR1 ==
    JObj(("unique_number" :> JStr("R1"))
      @@ ("animal" :> JObj(("species" :> JStr("Dog")) @@ ("breed" :> JStr("Labrador"))
             @@ ("weight" :> JObj(("min" :> JStr("10")) @@ ("unit" :> JStr("lbs"))))))
      @@ ("reaction" :> JList(<<Vomiting>>))
      @@ ("outcome" :> JList(<<Recovered>>))
      @@ ("drug" :> JList(<<JObj(("active_ingredients" :>
                                    JList(<<JObj(("name" :> JStr("Ibuprofen")))>>)))>>))
      @@ ("state" :> JStr("CA")) @@ ("country" :> JStr("US")))

\* a second report carrying the id R1 under "report_id": a cat without breed,
\* weight in grams, age in weeks, a reaction named twice, no geography
EventR1Again ==
    JObj(("report_id" :> JStr("R1"))
      @@ ("animal" :> JObj(("species" :> JStr("Cat")) @@ ("gender" :> JStr("Female"))
             @@ ("weight" :> JStr("500")) @@ ("weight_unit" :> JStr("g"))
             @@ ("age" :> JStr("2")) @@ ("age_unit" :> JStr("Weeks"))))
      @@ ("reaction" :> JList(<<Vomiting, JStr(" Vomiting "),
                                JObj(("name" :> JStr("Lethargy")))>>))
      @@ ("outcome" :> JList(<<JStr("Died")>>))
      @@ ("time_between_drug_administration_and_reaction" :>
             JObj(("time_value" :> JStr("1.5")) @@ ("time_unit" :> JStr("Weeks"))))
      @@ ("original_receive_date" :> JStr("20200101")))

\* a dog of a breed no reference list names, country without state
EventR2 ==
    JObj(("unique_number" :> JStr("R2"))
      @@ ("animal" :> JObj(("species" :> JStr("DOG"))
             @@ ("breed" :> JObj(("breed_component" :> JStr("Poodle"))))
             @@ ("weight" :> JStr("20")) @@ ("age" :> JObj(("min" :> JStr("2"))))
             @@ ("age_unit" :> JStr("Years"))))
      @@ ("reaction" :> JNull)
      @@ ("drug" :> JList(<<JObj(("active_ingredient" :> JList(<<JStr("Ibuprofen")>>)))>>))
      @@ ("country" :> JStr("US")))

\* a record without unique_number and report_id
EventNoId ==
    JObj(("animal" :> JObj(("species" :> JStr("Dog")) @@ ("breed" :> JStr("Beagle"))))
      @@ ("reaction" :> JList(<<Vomiting>>)) @@ ("state" :> JStr("TX")))

Blank == [t |-> "blank"]

\* the lines a raw events file may hold
RawEventLines == {EventR1, EventR1Again, EventR2, EventNoId, Unparseable, Blank}

DogLabrador ==
    JObj(("name" :> JStr("Labrador")) @@ ("breed_group" :> JStr("Sporting"))
      @@ ("bred_for" :> JStr("Retrieving")))
DogNoName == JObj(("breed_group" :> JStr("Toy")))
CatSiamese == JObj(("name" :> JStr("Siamese")) @@ ("origin" :> JStr("Thailand")))

Absent == [t |-> "absent"]

\* the contents a raw breeds file may have: a list, a single object, or no file
RawDogFiles == {Absent, DogLabrador, JList(<<DogLabrador>>), JList(<<DogNoName>>)}
RawCatFiles == {Absent, JList(<<CatSiamese>>)}

SeqsUpTo(S, n) == UNION {[1..k -> S] : k \in 0..n}

-----------------------------------------------------------------------------
(* staging.py *)

\* rows = [(line.strip(),) for line in handle if line.strip()]
load_jsonl_to_table(rows, lines) == rows \o SelectSeq(lines, LAMBDA l : l # Blank)

\* a payload that is not a list is wrapped in one; one row per item
load_json_to_table(rows, file) ==
    IF file = Absent THEN rows
    ELSE IF IsList(file) THEN rows \o file.items
    ELSE rows \o <<file>>

-----------------------------------------------------------------------------
(* The state machine *)

\* no function is being called on its own
NoCall == [fn |-> "none", args |-> <<>>, done |-> FALSE, result |-> JNull]

Init ==
    /\ staging_events = <<>>
    /\ staging_dog_breeds = <<>>
    /\ staging_cat_breeds = <<>>
    /\ wh = init_warehouse
    /\ conn = Closed
    /\ pc = "idle"
    /\ idx = 0
    /\ op = "none"
    /\ built = 0
    /\ raised = FALSE
    /\ fcall = NoCall

Staged == Len(staging_events) + Len(staging_dog_breeds) + Len(staging_cat_breeds)

\* a build_warehouse call ends
CountBuilt == IF op = "build" /\ built < MaxBuilt THEN built + 1 ELSE built

\* load_staging(): append the raw files to the three staging tables
load_staging ==
    /\ pc = "idle"
    /\ \E lines \in SeqsUpTo(RawEventLines, MaxStaged - Staged),
          dogs \in RawDogFiles, cats \in RawCatFiles :
        /\ staging_events' = load_jsonl_to_table(staging_events, lines)
        /\ staging_dog_breeds' = load_json_to_table(staging_dog_breeds, dogs)
        /\ staging_cat_breeds' = load_json_to_table(staging_cat_breeds, cats)
    /\ Len(staging_events') + Len(staging_dog_breeds') + Len(staging_cat_breeds') <= MaxStaged
    /\ <<staging_events', staging_dog_breeds', staging_cat_breeds'>>
         # <<staging_events, staging_dog_breeds, staging_cat_breeds>>
    /\ built' = 0
    /\ UNCHANGED <<wh, conn, pc, idx, op, raised, fcall>>

\* a top-level call starts and opens its connection
Start(call, first) ==
    /\ pc = "idle"
    /\ op' = call
    /\ pc' = first
    /\ idx' = 0
    /\ conn' = Connect(wh)
    /\ raised' = FALSE
    /\ UNCHANGED <<staging_events, staging_dog_breeds, staging_cat_breeds, wh, built, fcall>>

build_warehouse == Start("build", "dogs")
load_breeds_from_staging == Start("breeds", "dogs")
load_events_from_staging == Start("events", "events")

\* an exception that leaves what was written so far in the database
PropagateCommitted ==
    /\ wh' = conn.db
    /\ conn' = Closed
    /\ pc' = "idle"
    /\ idx' = 0
    /\ op' = "none"
    /\ raised' = TRUE
    /\ built' = CountBuilt

\* an exception leaves the "with" block: the transaction is rolled back and
\* the top-level call ends
Propagate ==
    /\ conn' = Closed
    /\ pc' = "idle"
    /\ idx' = 0
    /\ op' = "none"
    /\ raised' = TRUE
    /\ built' = CountBuilt
    /\ UNCHANGED wh

\* one iteration of a loop over a staging cursor
Iteration(rows, result) ==
    /\ idx < Len(rows)
    /\ IF result.raised THEN Propagate
       ELSE /\ conn' = result.conn
            /\ idx' = idx + 1
            /\ UNCHANGED <<wh, pc, op, built, raised>>
    /\ UNCHANGED <<staging_events, staging_dog_breeds, staging_cat_breeds, fcall>>

LoadDogBreed ==
    /\ pc = "dogs"
    /\ idx < Len(staging_dog_breeds)
    /\ Iteration(staging_dog_breeds,
                 load_breed(conn, staging_dog_breeds[idx + 1], "dog", "bred_for", "thedogapi"))

\* the dog cursor is exhausted: the cat loop starts
DogsDone ==
    /\ pc = "dogs"
    /\ idx = Len(staging_dog_breeds)
    /\ pc' = "cats"
    /\ idx' = 0
    /\ UNCHANGED <<staging_events, staging_dog_breeds, staging_cat_breeds, wh, conn, op,
                   built, raised, fcall>>

LoadCatBreed ==
    /\ pc = "cats"
    /\ idx < Len(staging_cat_breeds)
    /\ Iteration(staging_cat_breeds,
                 load_breed(conn, staging_cat_breeds[idx + 1], "cat", "origin", "thecatapi"))

\* wh_conn.commit() of load_breeds_from_staging; build_warehouse goes on to
\* load_events_from_staging
CommitBreeds ==
    /\ pc = "cats"
    /\ idx = Len(staging_cat_breeds)
    /\ wh' = conn.db
    /\ idx' = 0
    /\ IF op = "build"
       THEN pc' = "events" /\ conn' = Connect(conn.db) /\ op' = op
       ELSE pc' = "idle" /\ conn' = Closed /\ op' = "none"
    /\ UNCHANGED <<staging_events, staging_dog_breeds, staging_cat_breeds, built, raised,
                   fcall>>

LoadEvent ==
    /\ pc = "events"
    /\ idx < Len(staging_events)
    /\ Iteration(staging_events, load_event(conn, staging_events[idx + 1]))

\* a commit that also empties the staging table it has consumed
CommitEventsAndClear ==
    /\ pc = "events"
    /\ idx = Len(staging_events)
    /\ wh' = conn.db
    /\ conn' = Closed
    /\ pc' = "idle"
    /\ idx' = 0
    /\ op' = "none"
    /\ built' = CountBuilt
    /\ staging_events' = <<>>
    /\ UNCHANGED <<staging_dog_breeds, staging_cat_breeds, raised, fcall>>

\* wh_conn.commit() of load_events_from_staging
CommitEvents ==
    /\ pc = "events"
    /\ idx = Len(staging_events)
    /\ wh' = conn.db
    /\ conn' = Closed
    /\ pc' = "idle"
    /\ idx' = 0
    /\ op' = "none"
    /\ built' = CountBuilt
    /\ UNCHANGED <<staging_events, staging_dog_breeds, staging_cat_breeds, raised, fcall>>

Next ==
    \/ load_staging
    \/ build_warehouse
    \/ load_breeds_from_staging
    \/ load_events_from_staging
    \/ LoadDogBreed
    \/ DogsDone
    \/ LoadCatBreed
    \/ CommitBreeds
    \/ LoadEvent
    \/ CommitEvents

Spec == Init /\ [][Next]_vars

-----------------------------------------------------------------------------
(* Properties *)

\* the database states an observer or the running load can see
Views == {wh} \cup (IF conn.open THEN {conn.db} ELSE {})

Range(seq) == {seq[i] : i \in DOMAIN seq}

\* the staged lines that parse to an object carrying a report id
WellFormed(line) == IsDict(line) /\ Truthy(ReportId(line))

AnimalOf(payload) == PyOr(GetDefault(payload, "animal", JEmptyObj), JEmptyObj)

\* the natural key of a dimension or fact table
NaturalKey(table) ==
    CASE table = "dim_breed" -> {"breed_name", "species"}
      [] table = "dim_reaction" -> {"reaction_name"}
      [] table = "dim_outcome" -> {"outcome_name"}
      [] table = "dim_active_ingredient" -> {"ingredient_name"}
      [] table = "dim_geo" -> {"state", "country"}
      [] table = "fact_event" -> {"report_id"}

SameKey(r, k, table) == \A col \in NaturalKey(table) : r[col] = k[col]

\* the get-or-create calls tried in every reachable connection state
TestKeys(table) ==
    CASE table = "dim_geo" ->
            {[state |-> st, country |-> co] :
                st \in {JNull, JStr("CA")}, co \in {JNull, JStr("US")}}
      [] table = "dim_reaction" ->
            {[reaction_name |-> JStr(n)] : n \in {"Vomiting", "Lethargy", ""}}
      [] table = "dim_outcome" ->
            {[outcome_name |-> JStr(n)] : n \in {"Recovered", "Died"}}
      [] table = "dim_active_ingredient" ->
            {[ingredient_name |-> JStr(n)] : n \in {"Ibuprofen", "Aspirin"}}
      [] table = "dim_breed" ->
            {[breed_name |-> JStr(n), species |-> JStr(sp), group_name |-> g[1],
              purpose |-> JNull, source |-> JStr(g[2])] :
                n \in {"Labrador", "Poodle"}, sp \in {"dog", "cat"},
                g \in {<<JNull, "openfda">>, <<JStr("Sporting"), "thedogapi">>,
                       <<JStr("Hound"), "thedogapi">>}}

\* C1: no two fact_event rows share a report_id, in the committed database
\* and in the running load's view; and processing a staged record whose
\* report_id already has a fact row adds no fact row and links its bridge
\* rows to the existing row's event_key.
C1_ReportIdUnique ==
    /\ \A db \in Views : \A f, g \in db.fact_event : f.report_id = g.report_id => f = g
    /\ conn.open =>
        \A line \in Range(staging_events) :
            \A f \in conn.db.fact_event :
                (WellFormed(line) /\ f.report_id = ReportId(line)) =>
                    LET r == load_event(conn, line)
                    IN  /\ r.conn.db.fact_event = conn.db.fact_event
                        /\ \A bt \in BridgeTables :
                             \A b \in r.conn.db[bt] \ conn.db[bt] :
                                 b.event_key = JInt(f.event_key)

\* two staged records with the report id R1 have both been processed
C1_Witness ==
    /\ pc = "events"
    /\ idx = 2
    /\ staging_events = <<EventR1, EventR1Again>>
    /\ Cardinality(conn.db.fact_event) = 1
    /\ Cardinality(conn.db.bridge_event_reaction) = 2

\* C2: every dimension table holds at most one row per natural key (NULL
\* equal to NULL only), and after a get-or-create call for a key K, in any
\* reachable connection state, exactly one row holds K.
C2_OneRowPerKey ==
    /\ \A db \in Views : \A table \in DimTables :
         \A r1, r2 \in db[table] : SameKey(r1, r2, table) => r1 = r2
    /\ conn.open =>
        \A table \in DimTables : \A k \in TestKeys(table) :
            LET after == get_or_create_dim(conn, table, KeyCol(table), k).conn.db[table]
            IN  Cardinality({r \in after : SameKey(r, k, table)}) = 1

\* the geography key (NULL, NULL) has been requested twice and has one row
C2_Witness ==
    /\ pc = "events"
    /\ idx = 2
    /\ staging_events = <<EventR1Again, EventR1Again>>
    /\ Cardinality({g \in conn.db.dim_geo : IsNone(g.state) /\ IsNone(g.country)}) = 1
    /\ Cardinality(conn.db.dim_geo) = 1

\* the staged event the loader processes next has a breed name and a species
NextHasBreed ==
    /\ pc = "events"
    /\ idx < Len(staging_events)
    /\ WellFormed(staging_events[idx + 1])
    /\ Truthy(extract_breed_name(AnimalOf(staging_events[idx + 1])))
    /\ IsStr(Get(AnimalOf(staging_events[idx + 1]), "species"))

\* C3: a get-or-create call returns the surrogate key of a row that holds the
\* requested natural key: for any key of dim_geo, dim_reaction, dim_outcome
\* and dim_active_ingredient in every reachable connection state, and for the
\* dim_breed call the loader makes for the staged event it processes next.
C3_ReturnsKeyOfRow ==
    /\ conn.open =>
        \A table \in DimTables \ {"dim_breed"} : \A k \in TestKeys(table) :
            LET res == get_or_create_dim(conn, table, KeyCol(table), k)
            IN  \E r \in res.conn.db[table] :
                    r[KeyCol(table)] = res.key /\ SameKey(r, k, table)
    /\ NextHasBreed =>
        LET line == staging_events[idx + 1]
            breed_name == extract_breed_name(AnimalOf(line))
            species == Get(AnimalOf(line), "species")
            res == resolve_breed(resolve_geo(conn, line).conn, breed_name, species)
        IN  \E r \in res.conn.db.dim_breed :
                /\ r.breed_key = res.key
                /\ r.breed_name = breed_name
                /\ r.species = JStr(Lower(species.s))

\* row counts of every table
RowCounts(db) == [table \in Tables |-> Cardinality(db[table])]

\* C4: once a build_warehouse call has ended over the staged dataset, any
\* further load over the same dataset (a second build_warehouse in
\* particular) leaves the row count of every table unchanged.
C4_SecondBuildSameCounts == [][built >= 1 => RowCounts(wh') = RowCounts(wh)]_vars

\* build_warehouse has run twice over a dataset with breeds, events and links
C4_Witness ==
    /\ built >= 2
    /\ pc = "idle"
    /\ wh.fact_event # {}
    /\ wh.dim_breed # {}
    /\ wh.bridge_event_reaction # {}
    /\ staging_events # <<>>
    /\ staging_dog_breeds # <<>>

\* the two key columns of a bridge table
BridgeCols(table) ==
    CASE table = "bridge_event_reaction" -> {"event_key", "reaction_key"}
      [] table = "bridge_event_outcome" -> {"event_key", "outcome_key"}
      [] table = "bridge_event_ingredient" -> {"event_key", "ingredient_key"}

\* C5: no bridge table holds two rows with the same (event_key, target_key)
\* pair, whether the name occurs twice in a record or the record is
\* processed again; inserting a pair that is present leaves the table as it is.
C5_BridgePairsUnique ==
    /\ \A db \in Views : \A table \in BridgeTables :
         \A b1, b2 \in db[table] :
             (\A col \in BridgeCols(table) : b1[col] = b2[col]) => b1 = b2
    /\ conn.open =>
         \A table \in BridgeTables : \A b \in conn.db[table] :
             InsertOrIgnore(conn, table, [col \in BridgeCols(table) |-> b[col]]).conn.db[table]
                 = conn.db[table]

\* a record naming Vomiting twice has been processed twice
C5_Witness ==
    /\ pc = "events"
    /\ idx = 2
    /\ staging_events = <<EventR1Again, EventR1Again>>
    /\ Cardinality(conn.db.bridge_event_reaction) = 2
    /\ Cardinality(conn.db.dim_reaction) = 2

\* C6: when a build_warehouse call has ended, every well-formed staged event
\* has its fact row, whatever malformed records are staged around it.
C6_BadRecordSkipped ==
    (built >= 1 /\ pc = "idle") =>
        \A line \in Range(staging_events) :
            WellFormed(line) =>
                \E f \in wh.fact_event : f.report_id = ReportId(line)

\* C7: every fact row with a breed_key references a dim_breed row holding the
\* breed name and lower-cased species of a staged event with its report id,
\* and its geo_key references a dim_geo row holding that event's (state, country).
C7_ReferentialIntegrity ==
    \A db \in Views : \A f \in db.fact_event :
        \E line \in Range(staging_events) :
            /\ WellFormed(line)
            /\ ReportId(line) = f.report_id
            /\ ~IsNone(f.breed_key) =>
                 \E b \in db.dim_breed :
                     /\ b.breed_key = f.breed_key.num
                     /\ b.breed_name = extract_breed_name(AnimalOf(line))
                     /\ IsStr(Get(AnimalOf(line), "species"))
                     /\ b.species = JStr(Lower(Get(AnimalOf(line), "species").s))
            /\ \E g \in db.dim_geo :
                     /\ g.geo_key = f.geo_key.num
                     /\ g.state = Get(line, "state")
                     /\ g.country = Get(line, "country")

\* C8: every step of a load keeps every row of every table as it is, in the
\* committed database and within the running transaction; a dim_breed row
\* keeps its group_name, purpose and source.
C8_LoadsOnlyAdd ==
    [][/\ \A table \in Tables : wh[table] \subseteq wh'[table]
       /\ (conn.open /\ conn'.open) =>
            \A table \in Tables : conn.db[table] \subseteq conn'.db[table]
       /\ (conn.open /\ wh' # wh) =>
            \A table \in Tables : conn.db[table] \subseteq wh'[table]]_vars

\* a Labrador event was loaded after the reference breed: the row kept its group
C8_Witness ==
    /\ pc = "idle"
    /\ \E f \in wh.fact_event : f.report_id = JStr("R1") /\ f.species = JStr("Dog")
    /\ \E b \in wh.dim_breed :
          b.breed_name = JStr("Labrador") /\ b.group_name = JStr("Sporting")
                                          /\ b.source = JStr("thedogapi")

\* C9: a load of the single staged event R1 (no staged breeds), by
\* build_warehouse or by load_events_from_staging alone, yields exactly the
\* rows of the end-to-end scenario.
C9_EndToEnd ==
    (/\ built >= 1 \/ wh.fact_event # {}
     /\ pc = "idle"
     /\ staging_events = <<EventR1>>
     /\ staging_dog_breeds = <<>>
     /\ staging_cat_breeds = <<>>) =>
        /\ \A table \in Tables : Cardinality(wh[table]) = 1
        /\ \E b \in wh.dim_breed, g \in wh.dim_geo, f \in wh.fact_event,
              r \in wh.dim_reaction, o \in wh.dim_outcome, i \in wh.dim_active_ingredient :
            /\ b.breed_name = JStr("Labrador") /\ b.species = JStr("dog")
            /\ g.state = JStr("CA") /\ g.country = JStr("US")
            /\ f.report_id = JStr("R1")
            /\ f.breed_key = JInt(b.breed_key)
            /\ f.geo_key = JInt(g.geo_key)
            /\ RatEq(f.weight_kg, Mul(JInt(10), LbNum, LbDen))
            /\ r.reaction_name = JStr("Vomiting")
            /\ o.outcome_name = JStr("Recovered")
            /\ i.ingredient_name = JStr("Ibuprofen")
            /\ \E x \in wh.bridge_event_reaction :
                  x.event_key = JInt(f.event_key) /\ x.reaction_key = JInt(r.reaction_key)
            /\ \E x \in wh.bridge_event_outcome :
                  x.event_key = JInt(f.event_key) /\ x.outcome_key = JInt(o.outcome_key)
            /\ \E x \in wh.bridge_event_ingredient :
                  x.event_key = JInt(f.event_key) /\ x.ingredient_key = JInt(i.ingredient_key)

C9_Witness ==
    /\ built >= 1
    /\ pc = "idle"
    /\ ~raised
    /\ staging_events = <<EventR1>>
    /\ staging_dog_breeds = <<>>
    /\ staging_cat_breeds = <<>>
    /\ wh.fact_event # {}

\* the physical conversion factors of the units a record may carry, as <<num, den>>
KgPer(unit) ==
    CASE Lower(unit) \in PoundUnits -> <<LbNum, LbDen>>
      [] Lower(unit) \in {"g", "gram", "grams"} -> <<1, 1000>>
      [] OTHER -> <<1, 1>>

MonthsPer(unit) ==
    CASE Lower(unit) \in YearUnits -> <<12, 1>>
      [] Lower(unit) \in DayUnits -> <<1, 30>>
      [] Lower(unit) \in WeekUnits -> <<7, 30>>
      [] OTHER -> <<1, 1>>

\* the unit string of a weight or age field: the separate unit, else the object's
UnitOf(v, u) == IF Truthy(RawUnit(v, u)) THEN PyStr(RawUnit(v, u)) ELSE ""

\* C10: every non-null weight_kg is the source weight expressed in kilograms
\* and every non-null age_min is the source age expressed in months, for a
\* staged record with the row's report id.
C10_CanonicalUnits ==
    \A db \in Views : \A f \in db.fact_event :
        \E line \in Range(staging_events) :
            /\ WellFormed(line)
            /\ ReportId(line) = f.report_id
            /\ LET a == AnimalOf(line)
                   w == Float(RawValue(Get(a, "weight"), "weight"))
                   wu == KgPer(UnitOf(Get(a, "weight"), Get(a, "weight_unit")))
                   g == Float(RawValue(Get(a, "age"), "age"))
                   gu == MonthsPer(UnitOf(Get(a, "age"), Get(a, "age_unit")))
               IN  /\ ~IsNone(f.weight_kg) => RatEq(f.weight_kg, Mul(w, wu[1], wu[2]))
                   /\ ~IsNone(f.age_min) => RatEq(f.age_min, Mul(g, gu[1], gu[2]))

-----------------------------------------------------------------------------
(* The unit normalisers called on their own *)

\* raw weight, age and time values of every JSON type
RawScalars ==
    {JNull, JStr(""), JStr("abc"), JStr("nan"), JStr("10"), JStr("1.5"), JStr(" 10 "),
     JInt(0), JInt(20), JNum(5, 2), JBigInt, JNonFinite("inf"), JList(<<JInt(1)>>)}

RawObjects ==
    {JEmptyObj,
     JObj(("unit" :> JStr("lbs"))),
     JObj(("min" :> JStr("10")) @@ ("unit" :> JStr("lbs"))),
     JObj(("min" :> JInt(2)) @@ ("unit" :> JStr("years"))),
     JObj(("max" :> JStr("3")) @@ ("unit" :> JStr("Days"))),
     JObj(("value" :> JInt(2)) @@ ("unit" :> JStr("kg"))),
     JObj(("weight" :> JStr("3"))),
     JObj(("age" :> JInt(2))),
     JObj(("min" :> JStr("abc")) @@ ("max" :> JInt(2))),
     JObj(("min" :> JBigInt)),
     JObj(("min" :> JList(<<>>)) @@ ("value" :> JStr("1.5")) @@ ("unit" :> JInt(5))),
     JObj(("min" :> JInt(0)) @@ ("max" :> JInt(5))),
     JObj(("min" :> JInt(0))),
     JObj(("min" :> JNull) @@ ("max" :> JInt(2)) @@ ("value" :> JInt(3))),
     JObj(("max" :> JInt(0)) @@ ("weight" :> JInt(3)) @@ ("age" :> JInt(3)))}

RawValues == RawScalars \cup RawObjects

UnitStrings ==
    {"", "lb", "lbs", "pound", "pounds", "LB", "Lbs", "LBS", "Pound", "POUNDS", "kg", "KG",
     "g", "year", "years", "YEAR", "Years", "day", "days", "Day", "Days", "week", "weeks",
     "Week", "Weeks", "month", "months", "Month", "MONTHS"}

\* units of every JSON type
RawUnits ==
    {JStr(u) : u \in UnitStrings}
    \cup {JNull, JInt(0), JInt(5), JList(<<JStr("lbs")>>), JEmptyObj,
          JObj(("unit" :> JStr("days")))}

TimingKey == "time_between_drug_administration_and_reaction"

\* event payloads with every kind of timing object
RawTimings ==
    {JEmptyObj} \cup {JObj((TimingKey :> x)) : x \in {JNull, JStr("1 day"), JList(<<>>), JEmptyObj}}
    \cup {JObj((TimingKey :> JObj(("time_value" :> v)))) : v \in RawScalars}
    \cup {JObj((TimingKey :> JObj(("time_value" :> v) @@ ("time_unit" :> u)))) :
             v \in RawScalars, u \in RawUnits}

Pending(fn, args) == [fn |-> fn, args |-> args, done |-> FALSE, result |-> JNull]

\* the warehouse pipeline at rest
PipelineIdle ==
    /\ staging_events = <<>>
    /\ staging_dog_breeds = <<>>
    /\ staging_cat_breeds = <<>>
    /\ wh = init_warehouse
    /\ conn = Closed
    /\ pc = "idle"
    /\ idx = 0
    /\ op = "none"
    /\ built = 0
    /\ raised = FALSE

PipelineUnchanged ==
    UNCHANGED <<staging_events, staging_dog_breeds, staging_cat_breeds, wh, conn, pc, idx,
                op, built, raised>>

\* the call returns (or raises): its result is recorded
Return(fn, result) ==
    /\ fcall.fn = fn
    /\ ~fcall.done
    /\ fcall' = [fcall EXCEPT !.done = TRUE, !.result = result]
    /\ PipelineUnchanged

NormInit ==
    /\ PipelineIdle
    /\ fcall \in {Pending("_normalize_weight", <<v, u>>) : v \in RawValues, u \in RawUnits}
             \cup {Pending("_normalize_age", <<v, u>>) : v \in RawValues, u \in RawUnits}
             \cup {Pending("_normalize_days_to_reaction", <<e>>) : e \in RawTimings}

CallNormalizeWeight ==
    /\ fcall.fn = "_normalize_weight"
    /\ Return("_normalize_weight", normalize_weight(fcall.args[1], fcall.args[2]))

CallNormalizeAge ==
    /\ fcall.fn = "_normalize_age"
    /\ Return("_normalize_age", normalize_age(fcall.args[1], fcall.args[2]))

CallNormalizeDays ==
    /\ fcall.fn = "_normalize_days_to_reaction"
    /\ Return("_normalize_days_to_reaction", normalize_days_to_reaction(fcall.args[1]))

NormNext == CallNormalizeWeight \/ CallNormalizeAge \/ CallNormalizeDays

NormSpec == NormInit /\ [][NormNext]_vars

Returned(fn) == fcall.fn = fn /\ fcall.done

\* C11: the three unit normalisers never raise: for a raw value and a unit of
\* any JSON type each of them returns a number or null.
C11_NormalisersNeverRaise ==
    fcall.done /\ fcall.fn \in {"_normalize_weight", "_normalize_age",
                                "_normalize_days_to_reaction"}
        => fcall.result.t \in {"null", "num", "nonfinite"}

\* the number a raw value carries: the scalar itself, or the entry of an
\* object that has exactly one of the keys min, max, value
Carried(v) ==
    IF ~IsDict(v) THEN v
    ELSE LET ks == {"min", "max", "value"} \cap DOMAIN v.f
         IN  IF Cardinality(ks) = 1 THEN v.f[CHOOSE k \in ks : TRUE] ELSE JNull

\* an optional unit string: absent, empty or a word
OptionalUnit(u) == IsNone(u) \/ IsStr(u)
UnitGiven(u) == IsStr(u) /\ u.s # ""

\* the unit that applies: the separate argument when given, else the object's
EffectiveUnit(v, u) == IF ~UnitGiven(u) /\ IsDict(v) THEN Get(v, "unit") ELSE u

PoundSpellings == {"lb", "lbs", "pound", "pounds", "LB", "Lbs", "LBS", "Pound", "POUNDS"}

\* C12: for a numeric value v, _normalize_weight returns v * 0.45359237 when
\* the unit is a pound unit in any letter case and v otherwise; _normalize_age
\* returns v * 12 for year/years, v / 30 for day/days and v when no unit is
\* given; the unit inside a value object applies only when no separate unit
\* argument is given.
C12_Conversion ==
    fcall.done /\ fcall.fn \in {"_normalize_weight", "_normalize_age"} =>
        LET v == Float(Carried(fcall.args[1]))
            unit == EffectiveUnit(fcall.args[1], fcall.args[2])
        IN  v.t = "num" /\ OptionalUnit(fcall.args[2]) /\ OptionalUnit(unit) =>
                IF fcall.fn = "_normalize_weight"
                THEN fcall.result = (IF unit.s \in PoundSpellings THEN Mul(v, LbNum, LbDen)
                                     ELSE v)
                ELSE /\ unit.s \in {"year", "years"} => fcall.result = Mul(v, 12, 1)
                     /\ unit.s \in {"day", "days"} => fcall.result = Mul(v, 1, 30)
                     /\ ~UnitGiven(unit) => fcall.result = v

\* 10 "LBS" is 4.5359237 kg, and the "lbs" inside a weight object yields to
\* a separate "kg"
C12_Witness ==
    /\ Returned("_normalize_weight")
    /\ \/ /\ fcall.args = <<JStr("10"), JStr("LBS")>>
          /\ fcall.result = JNum(45359237, 10000000)
       \/ /\ fcall.args = <<JObj(("min" :> JStr("10")) @@ ("unit" :> JStr("lbs"))), JStr("kg")>>
          /\ fcall.result = JInt(10)

\* C13: _normalize_days_to_reaction maps (time_value, time_unit) to an
\* integer number of days: round(value) for day/days, round(value * 7) for
\* week/weeks, round(value * 30) for month/months, and null for any other
\* unit, a missing unit, a non-numeric value or a missing timing object.
C13_DaysToReaction ==
    Returned("_normalize_days_to_reaction") =>
        LET timing == Get(fcall.args[1], TimingKey)
            value == IF IsDict(timing) THEN Float(Get(timing, "time_value")) ELSE JNull
            unit == IF IsDict(timing) THEN Get(timing, "time_unit") ELSE JNull
            word == IF IsStr(unit) THEN Lower(unit.s) ELSE ""
        IN  IF value.t # "num" THEN fcall.result = JNull
            ELSE IF word \in {"day", "days"} THEN fcall.result = JInt(Round(value))
            ELSE IF word \in {"week", "weeks"} THEN fcall.result = JInt(Round(Mul(value, 7, 1)))
            ELSE IF word \in {"month", "months"}
            THEN fcall.result = JInt(Round(Mul(value, 30, 1)))
            ELSE fcall.result = JNull

\* the same with the units that are not strings and the values that float()
\* does not turn into a finite number left aside
C13_StringUnitsFiniteValues ==
    Returned("_normalize_days_to_reaction") /\ fcall.result # Raise => C13_DaysToReaction

-----------------------------------------------------------------------------
(* The entity extractors called on their own *)

\* objects with any choice of values under the given keys, absent included
ObjectsOver(keys, values) ==
    {JObj(f) : f \in UNION {[ks -> values] : ks \in SUBSET keys}}

\* what a source may hold where a name is expected
NameValues == {JNull, JStr(" "), JStr("Labrador "), JStr("Poodle"), JInt(5)}

\* animal objects: breed absent, a scalar, a list or an object
RawAnimals ==
    {JEmptyObj}
    \cup {JObj(("breed" :> b)) :
            b \in NameValues \cup {JStr(""), JList(<<JStr("Poodle")>>)}
                  \cup ObjectsOver({"breed_name", "breed_component", "name"}, NameValues)}

\* values of the wrong type found where a list is expected
Mistyped == {JNull, JStr(""), JStr("ab"), JInt(0), JInt(5), JEmptyObj,
             JObj(("name" :> JStr("Poodle")))}

\* entries of a reaction or outcome list
RawItems ==
    {JNull, JInt(5), JStr(" "), JStr(" Vomiting "), JList(<<JStr("Poodle")>>), JEmptyObj,
     JObj(("veddra_term_name" :> JStr("Vomiting")) @@ ("name" :> JStr("Poodle"))),
     JObj(("veddra_term_name" :> JStr(" ")) @@ ("veddra_term" :> JInt(5))
          @@ ("reaction_name" :> JStr(" Vomiting ")) @@ ("name" :> JStr("Poodle"))),
     JObj(("name" :> JStr("Lethargy"))),
     JObj(("medical_status" :> JStr(" Recovered")) @@ ("outcome" :> JStr("Died"))),
     JObj(("medical_status" :> JNull) @@ ("outcome_name" :> JStr("Died"))
          @@ ("name" :> JStr(" ")))}

\* event payloads whose field is absent, mistyped or a list of entries
RawEntries(field, items) ==
    {JEmptyObj} \cup {JObj((field :> x)) : x \in Mistyped}
    \cup {JObj((field :> JList(xs))) : xs \in SeqsUpTo(items, MaxEntries)}

\* values of a drug's active_ingredients / active_ingredient field
IngredientFields ==
    Mistyped
    \cup {JList(xs) : xs \in {<<>>, <<JEmptyObj>>, <<JStr(" ")>>, <<JInt(5)>>,
                               <<JObj(("name" :> JStr(" ")))>>,
                               <<JObj(("name" :> JStr("Ibuprofen")))>>,
                               <<JStr("Aspirin"), JObj(("name" :> JStr(" Ibuprofen ")))>>}}

RawDrugs == {JStr("ab"), JInt(5)}
            \cup ObjectsOver({"active_ingredients", "active_ingredient"}, IngredientFields)

\* the drug entries that lists of several drugs are built from
SomeDrugs ==
    {JInt(5),
     JObj(("active_ingredients" :> JList(<<JObj(("name" :> JStr("Ibuprofen")))>>))),
     JObj(("active_ingredient" :> JList(<<JStr("Aspirin")>>))),
     JObj(("active_ingredients" :> JList(<<JEmptyObj>>))
          @@ ("active_ingredient" :> JList(<<JStr("Aspirin")>>))),
     JObj(("active_ingredients" :> JList(<<>>))
          @@ ("active_ingredient" :> JList(<<JObj(("name" :> JStr(" Ibuprofen ")))>>)))}

RawDrugEntries ==
    RawEntries("drug", SomeDrugs) \cup {JObj(("drug" :> JList(<<d>>))) : d \in RawDrugs}

ExtractInit ==
    /\ PipelineIdle
    /\ fcall \in {Pending("_extract_breed_name", <<a>>) : a \in RawAnimals}
             \cup {Pending("_extract_reactions", <<e>>) : e \in RawEntries("reaction", RawItems)}
             \cup {Pending("_extract_outcomes", <<e>>) : e \in RawEntries("outcome", RawItems)}
             \cup {Pending("_extract_active_ingredients", <<e>>) : e \in RawDrugEntries}

CallExtractBreedName ==
    /\ fcall.fn = "_extract_breed_name"
    /\ Return("_extract_breed_name", extract_breed_name(fcall.args[1]))

CallExtractReactions ==
    /\ fcall.fn = "_extract_reactions"
    /\ Return("_extract_reactions", extract_reactions(fcall.args[1]))

CallExtractOutcomes ==
    /\ fcall.fn = "_extract_outcomes"
    /\ Return("_extract_outcomes", extract_outcomes(fcall.args[1]))

CallExtractActiveIngredients ==
    /\ fcall.fn = "_extract_active_ingredients"
    /\ Return("_extract_active_ingredients", extract_active_ingredients(fcall.args[1]))

ExtractNext ==
    \/ CallExtractBreedName
    \/ CallExtractReactions
    \/ CallExtractOutcomes
    \/ CallExtractActiveIngredients

ExtractSpec == ExtractInit /\ [][ExtractNext]_vars

NoNames == [raised |-> FALSE, names |-> <<>>]

\* absent, null, or a string, number or object where a list is expected
NotAList(x) == x.t \in {"null", "str", "num", "obj"}

\* C14: a field of the wrong type is tolerated: when animal.breed, reaction,
\* outcome, drug or a drug's ingredient field is absent, null or of an
\* unexpected type, the extractors neither raise nor emit names derived from
\* the mistyped value.
C14_WrongTypeOmitted ==
    /\ (Returned("_extract_breed_name")
          /\ Get(fcall.args[1], "breed").t \in {"null", "num", "list"})
         => fcall.result = JNull
    /\ (Returned("_extract_reactions") /\ NotAList(Get(fcall.args[1], "reaction")))
         => fcall.result = NoNames
    /\ (Returned("_extract_outcomes") /\ NotAList(Get(fcall.args[1], "outcome")))
         => fcall.result = NoNames
    /\ (Returned("_extract_active_ingredients") /\ NotAList(Get(fcall.args[1], "drug")))
         => fcall.result = NoNames
    /\ (Returned("_extract_active_ingredients") /\ IsList(Get(fcall.args[1], "drug"))
          /\ (\A i \in DOMAIN Get(fcall.args[1], "drug").items :
                LET drug == Get(fcall.args[1], "drug").items[i]
                IN  IsDict(drug) => (/\ NotAList(Get(drug, "active_ingredients"))
                                     /\ NotAList(Get(drug, "active_ingredient")))))
         => fcall.result = NoNames

\* the value under a key is a non-blank string
Usable(item, key) == IsStr(Get(item, key)) /\ Strip(Get(item, key).s) # ""

\* the trimmed value of the first usable key in priority order, "" if none
PriorityName(item, keys) ==
    IF \E i \in DOMAIN keys : Usable(item, keys[i])
    THEN LET i == CHOOSE i \in DOMAIN keys :
                      /\ Usable(item, keys[i])
                      /\ \A j \in 1..(i - 1) : ~Usable(item, keys[j])
         IN  Strip(Get(item, keys[i]).s)
    ELSE ""

\* the name one list entry yields, "" when it yields nothing
EntryName(item, keys) ==
    IF IsDict(item) THEN PriorityName(item, keys)
    ELSE IF IsStr(item) THEN Strip(item.s)
    ELSE ""

\* one name per entry in source order, the entries that yield nothing skipped
EntryNames(items, keys) ==
    SelectSeq([i \in DOMAIN items |-> EntryName(items[i], keys)], LAMBDA n : n # "")

\* C15: _extract_reactions and _extract_outcomes return, in source order,
\* one trimmed name per list entry (for an object the first non-blank string
\* in key priority order, for a string the entry itself); an entry that yields
\* nothing is skipped, so every returned name is a non-empty string.
C15_OneNamePerEntry ==
    /\ (Returned("_extract_reactions") /\ IsList(Get(fcall.args[1], "reaction")))
         => fcall.result = [raised |-> FALSE,
                            names |-> EntryNames(Get(fcall.args[1], "reaction").items,
                                                 <<"veddra_term_name", "veddra_term",
                                                   "reaction_name", "name">>)]
    /\ (Returned("_extract_outcomes") /\ IsList(Get(fcall.args[1], "outcome")))
         => fcall.result = [raised |-> FALSE,
                            names |-> EntryNames(Get(fcall.args[1], "outcome").items,
                                                 <<"medical_status", "outcome",
                                                   "outcome_name", "name">>)]

\* C16: _extract_breed_name returns the trimmed breed string when
\* animal.breed is a non-blank string, the first non-blank string under
\* breed_name, breed_component, name when it is an object, and null in every
\* other case.
C16_BreedName ==
    Returned("_extract_breed_name") =>
        LET breed == Get(fcall.args[1], "breed")
            name == IF IsStr(breed) THEN Strip(breed.s)
                    ELSE IF IsDict(breed)
                    THEN PriorityName(breed, <<"breed_name", "breed_component", "name">>)
                    ELSE ""
        IN  fcall.result = (IF name = "" THEN JNull ELSE JStr(name))

\* a blank breed_name is passed over for the breed_component below it
C16_Witness ==
    /\ Returned("_extract_breed_name")
    /\ Get(fcall.args[1], "breed") =
         JObj(("breed_name" :> JStr(" ")) @@ ("breed_component" :> JStr("Labrador "))
              @@ ("name" :> JStr("Poodle")))
    /\ fcall.result = JStr("Labrador")

\* the drug entries of a payload whose drug field and ingredient fields are
\* lists, null or absent
WellTypedDrugs(entry) ==
    /\ IsList(Get(entry, "drug"))
    /\ \A i \in DOMAIN Get(entry, "drug").items :
          LET drug == Get(entry, "drug").items[i]
          IN  IsDict(drug) => /\ Get(drug, "active_ingredients").t \in {"null", "list"}
                              /\ Get(drug, "active_ingredient").t \in {"null", "list"}

\* the entries of a list field, none when it is null or absent
ItemsOf(x) == IF IsList(x) THEN x.items ELSE <<>>

\* the names an ingredient list holds: the non-blank name of an object, the
\* trimmed text of a string
ListedNames(x) ==
    LET items == ItemsOf(x)
        one(item) == IF IsDict(item)
                     THEN (IF Usable(item, "name") THEN <<Strip(Get(item, "name").s)>>
                           ELSE <<>>)
                     ELSE IF IsStr(item) THEN <<Strip(item.s)>>
                     ELSE <<>>
    IN  [i \in DOMAIN items |-> one(items[i])]

RECURSIVE Flatten(_)
Flatten(seqs) == IF seqs = <<>> THEN <<>> ELSE Head(seqs) \o Flatten(Tail(seqs))

\* the ingredient names of every drug entry, the field of each drug chosen
\* by UsePlural
NamesByDrug(entry, UsePlural(_)) ==
    LET drugs == Get(entry, "drug").items
        names(drug) == IF ~IsDict(drug) THEN <<>>
                       ELSE IF UsePlural(drug)
                       THEN Flatten(ListedNames(Get(drug, "active_ingredients")))
                       ELSE Flatten(ListedNames(Get(drug, "active_ingredient")))
    IN  Flatten([i \in DOMAIN drugs |-> names(drugs[i])])

\* active_ingredients yields at least one name
PluralYieldsName(drug) == Flatten(ListedNames(Get(drug, "active_ingredients"))) # <<>>

\* active_ingredients is a list with at least one entry
PluralNotEmpty(drug) == ItemsOf(Get(drug, "active_ingredients")) # <<>>

\* C17 as stated: _extract_active_ingredients extracts the names under
\* active_ingredients, and whenever active_ingredients yields no ingredient
\* name for a drug, the names under active_ingredient instead.
C17_FallbackWhenNoName ==
    (Returned("_extract_active_ingredients") /\ WellTypedDrugs(fcall.args[1]))
        => fcall.result = [raised |-> FALSE,
                           names |-> NamesByDrug(fcall.args[1], PluralYieldsName)]

\* C17: _extract_active_ingredients extracts, for every drug entry, the names
\* under active_ingredients when that list has at least one entry, and the
\* names under active_ingredient only when active_ingredients is absent, null
\* or empty; an object entry contributes its non-blank trimmed name, a string
\* entry the trimmed string.
C17_FallbackWhenEmpty ==
    (Returned("_extract_active_ingredients") /\ WellTypedDrugs(fcall.args[1]))
        => fcall.result = [raised |-> FALSE,
                           names |-> NamesByDrug(fcall.args[1], PluralNotEmpty)]

\* an empty active_ingredients list gives way to active_ingredient
C17_Witness ==
    /\ Returned("_extract_active_ingredients")
    /\ Get(fcall.args[1], "drug") =
         JList(<<JObj(("active_ingredients" :> JList(<<>>))
                      @@ ("active_ingredient" :>
                            JList(<<JObj(("name" :> JStr(" Ibuprofen ")))>>)))>>)
    /\ fcall.result = [raised |-> FALSE, names |-> <<"Ibuprofen">>]

-----------------------------------------------------------------------------
(* Breed and geography keys of the fact rows *)

\* the staged record a fact row was loaded from: the first one with its id
FirstStaged(report_id) ==
    LET hits == {i \in DOMAIN staging_events :
                    /\ WellFormed(staging_events[i])
                    /\ ReportId(staging_events[i]) = report_id}
    IN  staging_events[SetMin(hits)]

\* the event has a known (non-blank) breed name
KnownBreed(payload) ==
    LET breed == Get(AnimalOf(payload), "breed")
    IN  \/ IsStr(breed) /\ Strip(breed.s) # ""
        \/ IsDict(breed) /\ PriorityName(breed, <<"breed_name", "breed_component", "name">>) # ""

HasSpecies(payload) ==
    IsStr(Get(AnimalOf(payload), "species")) /\ Get(AnimalOf(payload), "species").s # ""

\* the event loop has consumed the staged rows: a further row would be next
LoopAtEnd == pc = "events" /\ idx = Len(staging_events)

\* events with a new report id that lack the breed, the species or both
EventsWithoutBreed ==
    {JObj(("unique_number" :> JStr("R3")) @@ ("animal" :> a) @@ ("country" :> JStr("US"))) :
        a \in {JEmptyObj,
               JObj(("breed" :> JStr("Beagle"))),
               JObj(("breed" :> JStr("Beagle")) @@ ("species" :> JStr(""))),
               JObj(("breed" :> JStr(" ")) @@ ("species" :> JStr("Dog"))),
               JObj(("breed" :> JObj(("name" :> JNull))) @@ ("species" :> JStr("Dog"))),
               JObj(("species" :> JStr("Dog")))}}

\* C18: for every loaded event, fact_event.breed_key is non-null exactly when
\* the event has both a known breed name and a species; in every other case
\* the fact row is still inserted, with breed_key null, and no dim_breed row
\* is created for it.
C18_BreedKeyIffBreedAndSpecies ==
    /\ \A db \in Views : \A f \in db.fact_event :
          ~IsNone(f.breed_key) <=>
              (KnownBreed(FirstStaged(f.report_id)) /\ HasSpecies(FirstStaged(f.report_id)))
    /\ LoopAtEnd =>
          \A line \in EventsWithoutBreed :
              LET after == load_event(conn, line)
              IN  /\ ~after.raised
                  /\ after.conn.db.dim_breed = conn.db.dim_breed
                  /\ \E f \in after.conn.db.fact_event :
                        f.report_id = ReportId(line) /\ IsNone(f.breed_key)

\* the warehouse holds a fact row with a breed key and one without
C18_Witness ==
    /\ pc = "idle"
    /\ \E f \in wh.fact_event : f.report_id = JStr("R2") /\ ~IsNone(f.breed_key)
    /\ \E f \in wh.fact_event :
          /\ f.report_id = JStr("R1") /\ IsNone(f.breed_key)
          /\ FirstStaged(f.report_id) = EventR1Again

\* events with a new report id and every kind of (state, country) pair
EventsSomewhere ==
    {JObj(("unique_number" :> JStr("R3")) @@ g) :
        g \in {("state" :> JNull) @@ ("country" :> JNull),
               ("country" :> JStr("US")),
               ("state" :> JStr("CA")) @@ ("country" :> JStr("US")),
               ("state" :> JStr("TX"))}}

\* the dim_geo rows of a database that hold a (state, country) pair
GeoRows(db, payload) ==
    {g \in db.dim_geo : g.state = Get(payload, "state") /\ g.country = Get(payload, "country")}

\* C19: a geography key is resolved for every loaded event from
\* (state, country), either of which may be null: every fact row has a
\* non-null geo_key, and all events with the same pair, (null, null)
\* included, share one dim_geo row across any number of events and load runs.
C19_OneGeoRowPerPair ==
    /\ \A db \in Views :
          /\ \A f \in db.fact_event :
                /\ ~IsNone(f.geo_key)
                /\ \E g \in GeoRows(db, FirstStaged(f.report_id)) : g.geo_key = f.geo_key.num
          /\ \A g1, g2 \in db.dim_geo :
                (g1.state = g2.state /\ g1.country = g2.country) => g1 = g2
    /\ LoopAtEnd =>
          \A line \in EventsSomewhere :
              LET after == load_event(conn, line).conn.db
              IN  /\ Cardinality(GeoRows(after, line)) = 1
                  /\ GeoRows(conn.db, line) # {} => after.dim_geo = conn.db.dim_geo
                  /\ \E f \in after.fact_event :
                        /\ f.report_id = ReportId(line)
                        /\ \E g \in GeoRows(after, line) : g.geo_key = f.geo_key.num

\* after two builds the event without state and country still has the one
\* (null, null) row
C19_Witness ==
    /\ pc = "idle"
    /\ built = MaxBuilt
    /\ \E f \in wh.fact_event :
          /\ FirstStaged(f.report_id) = EventR1Again
          /\ \E g \in wh.dim_geo :
                g.geo_key = f.geo_key.num /\ IsNone(g.state) /\ IsNone(g.country)

-----------------------------------------------------------------------------
(* The breed matcher of src/main_pipeline.py.  A string is the record       *)
(* Text(cs) of its sequence of characters cs.                               *)

Text(cs) == [t |-> "text", chars |-> cs]
IsText(x) == x.t = "text"

\* str.split(sep): the pieces between the separators, at least one
RECURSIVE SplitChars(_, _)
SplitChars(cs, sep) ==
    IF \A i \in DOMAIN cs : cs[i] # sep THEN <<cs>>
    ELSE LET i == SetMin({k \in DOMAIN cs : cs[k] = sep})
         IN  <<SubSeq(cs, 1, i - 1)>> \o SplitChars(SubSeq(cs, i + 1, Len(cs)), sep)

\* str.strip(): leading and trailing whitespace removed
RECURSIVE StripChars(_)
StripChars(cs) ==
    IF cs # <<>> /\ Head(cs) = " " THEN StripChars(Tail(cs))
    ELSE IF cs # <<>> /\ cs[Len(cs)] = " " THEN StripChars(SubSeq(cs, 1, Len(cs) - 1))
    ELSE cs

\* code points of the characters of the model
CharCode == (" " :> 32) @@ ("-" :> 45) @@ ("a" :> 97) @@ ("b" :> 98)

\* x < y for Python strings
RECURSIVE CharsLess(_, _)
CharsLess(x, y) ==
    IF y = <<>> THEN FALSE
    ELSE IF x = <<>> THEN TRUE
    ELSE IF Head(x) # Head(y) THEN CharCode[Head(x)] < CharCode[Head(y)]
    ELSE CharsLess(Tail(x), Tail(y))

\* SequenceMatcher.find_longest_match without junk: the longest block
\* a[i .. i+k-1] = b[j .. j+k-1], the earliest in a and then the earliest in b
LongestMatch(a, b) ==
    LET blocks == {blk \in (DOMAIN a) \X (DOMAIN b) \X (1..Len(a)) :
                      /\ blk[1] + blk[3] - 1 <= Len(a)
                      /\ blk[2] + blk[3] - 1 <= Len(b)
                      /\ SubSeq(a, blk[1], blk[1] + blk[3] - 1)
                           = SubSeq(b, blk[2], blk[2] + blk[3] - 1)}
        better(x, y) == \/ x[3] > y[3]
                        \/ x[3] = y[3] /\ x[1] < y[1]
                        \/ x[3] = y[3] /\ x[1] = y[1] /\ x[2] < y[2]
    IN  IF blocks = {} THEN <<1, 1, 0>>
        ELSE CHOOSE x \in blocks : \A y \in blocks : y = x \/ better(x, y)

\* SequenceMatcher.get_matching_blocks: the total size of the blocks found by
\* matching the longest block and then the pieces to its left and right
RECURSIVE Matches(_, _)
Matches(a, b) ==
    LET blk == LongestMatch(a, b)
    IN  IF blk[3] = 0 THEN 0
        ELSE blk[3]
             + Matches(SubSeq(a, 1, blk[1] - 1), SubSeq(b, 1, blk[2] - 1))
             + Matches(SubSeq(a, blk[1] + blk[3], Len(a)), SubSeq(b, blk[2] + blk[3], Len(b)))

\* SequenceMatcher(None, a, b).ratio() >= cutoff, the cutoff num / den:
\* 2.0 * matches / length, and 1.0 for two empty strings
RatioAtLeast(a, b, num, den) ==
    IF Len(a) + Len(b) = 0 THEN num <= den
    ELSE 2 * Matches(a, b) * den >= num * (Len(a) + Len(b))

\* score(x) > score(y), or the scores are equal and x > y: the order of the
\* (score, x) tuples that heapq.nlargest compares
ScoredAbove(x, y, word) ==
    LET sx == 2 * Matches(x, word) * (Len(y) + Len(word))
        sy == 2 * Matches(y, word) * (Len(x) + Len(word))
    IN  IF Len(x) + Len(word) = 0 \/ Len(y) + Len(word) = 0
        THEN CharsLess(y, x)
        ELSE sx > sy \/ (sx = sy /\ CharsLess(y, x))

\* the cutoff 0.6 as the rational CutoffNum / CutoffDen
CutoffNum == 6
CutoffDen == 10

\* the best-scoring possibility, whatever its score
get_close_matches_any_score(word, possibilities, num, den) ==
    LET close == Range(possibilities)
    IN  IF close = {} THEN <<>>
        ELSE <<CHOOSE x \in close : \A y \in close : y = x \/ ScoredAbove(x, y, word)>>

\* difflib.get_close_matches(word, possibilities, n=1, cutoff): the best
\* possibility scoring at least the cutoff, or none
get_close_matches(word, possibilities, num, den) ==
    LET close == {possibilities[i] : i \in {k \in DOMAIN possibilities :
                      RatioAtLeast(possibilities[k], word, num, den)}}
    IN  IF close = {} THEN <<>>
        ELSE <<CHOOSE x \in close : \A y \in close : y = x \/ ScoredAbove(x, y, word)>>

\* the two parts in their given order
Unswapped(parts) == parts[1] \o <<" ">> \o parts[2]

\* f"{parts[1]} {parts[0]}"
Swapped(parts) == parts[2] \o <<" ">> \o parts[1]

\* [value, fuzzy]: the returned name or None, and whether the fuzzy step ran
smart_breed_match(fda_breed, api_breed_list) ==
    IF ~IsText(fda_breed) THEN [value |-> JNull, fuzzy |-> FALSE]
    ELSE LET pieces == SplitChars(fda_breed.chars, "-")
             parts == [i \in DOMAIN pieces |-> StripChars(pieces[i])]
             matches == get_close_matches(fda_breed.chars, api_breed_list,
                                          CutoffNum, CutoffDen)
         IN  IF /\ "-" \in Range(fda_breed.chars)
                /\ Len(parts) = 2
                /\ Swapped(parts) \in Range(api_breed_list)
             THEN [value |-> Text(Swapped(parts)), fuzzy |-> FALSE]
             ELSE [value |-> IF matches # <<>> THEN Text(matches[1]) ELSE JNull,
                   fuzzy |-> TRUE]

Alphabet == {"a", "b", " ", "-"}

\* breed strings, and a value that is not a string
RawBreeds == {Text(cs) : cs \in SeqsUpTo(Alphabet, MaxBreedLen)} \cup {JNull}

\* names of the reference list
RefNames == {<<"a", " ", "b">>, <<"b", " ", "a">>, <<"a", "b">>, <<"a", " ">>}

RefLists == SeqsUpTo(RefNames, MaxRefs)

\* str.lower() on the letters of the model
LowerChars(cs) == [i \in DOMAIN cs |-> IF cs[i] = "A" THEN "a"
                                       ELSE IF cs[i] = "B" THEN "b" ELSE cs[i]]

\* Series.unique(): the values in the order of their first occurrence
RECURSIVE Unique(_)
Unique(xs) ==
    IF xs = <<>> THEN <<>>
    ELSE LET init == Unique(SubSeq(xs, 1, Len(xs) - 1))
         IN  IF xs[Len(xs)] \in Range(init) THEN init ELSE Append(init, xs[Len(xs)])

\* df_dog_lookup['name'].str.lower().unique().tolist()
valid_dog_breeds(names) == Unique([i \in DOMAIN names |-> LowerChars(names[i])])

\* df['breed.breed_component'].astype(str).str.lower()
breed_lower(breed) ==
    IF IsText(breed) THEN Text(LowerChars(breed.chars)) ELSE Text(<<"n", "o", "n", "e">>)

Unknown == Text(<<"U", "n", "k", "n", "o", "w", "n">>)

\* the breed_map entry enrich_data computes for one breed: match if match
\* else "Unknown"
enrich_data(breed, names) ==
    LET match == smart_breed_match(breed_lower(breed), valid_dog_breeds(names)).value
    IN  IF IsText(match) /\ match.chars # <<>> THEN match ELSE Unknown

\* breed components and reference names as the raw files spell them
MixedCaseBreeds == {Text(<<"A", "b">>), Text(<<"B", "-", "A">>)}
MixedCaseLists == {<<<<"A", "B">>>>, <<<<"a", " ", "B">>, <<"A", " ", "b">>>>}

MatchInit ==
    /\ PipelineIdle
    /\ \/ \E b \in RawBreeds, l \in RefLists :
              fcall = Pending("smart_breed_match", <<b, l>>)
       \/ \E b \in RawBreeds \cup MixedCaseBreeds, l \in RefLists \cup MixedCaseLists :
              fcall = Pending("enrich_data", <<b, l>>)

CallSmartBreedMatch ==
    /\ fcall.fn = "smart_breed_match"
    /\ Return("smart_breed_match", smart_breed_match(fcall.args[1], fcall.args[2]))

CallEnrichData ==
    /\ fcall.fn = "enrich_data"
    /\ Return("enrich_data", enrich_data(fcall.args[1], fcall.args[2]))

MatchNext == CallSmartBreedMatch \/ CallEnrichData

MatchSpec == MatchInit /\ [][MatchNext]_vars

\* the strings that cs is a padding of: cs without its leading and trailing
\* blanks
TrimsOf(cs) ==
    {SubSeq(cs, i, j) : <<i, j>> \in
        {p \in (1..(Len(cs) + 1)) \X (0..Len(cs)) :
            /\ p[2] >= p[1] - 1
            /\ \A k \in DOMAIN cs : (k < p[1] \/ k > p[2]) => cs[k] = " "
            /\ p[2] >= p[1] => (cs[p[1]] # " " /\ cs[p[2]] # " ")}}

\* C20: for every breed string of exactly two hyphen-separated parts "X - Y"
\* such that "Y X" is in the reference list, smart_breed_match returns "Y X"
\* without using the fuzzy step; a string with no hyphen or with more than two
\* hyphen-separated parts never takes the swap path.
C20_SwapHeuristic ==
    (Returned("smart_breed_match") /\ IsText(fcall.args[1])) =>
        LET cs == fcall.args[1].chars
            hyphens == {i \in DOMAIN cs : cs[i] = "-"}
        IN  IF Cardinality(hyphens) = 1
            THEN LET h == CHOOSE i \in hyphens : TRUE
                 IN  \A X \in TrimsOf(SubSeq(cs, 1, h - 1)),
                        Y \in TrimsOf(SubSeq(cs, h + 1, Len(cs))) :
                         (Y \o <<" ">> \o X) \in Range(fcall.args[2]) =>
                             fcall.result = [value |-> Text(Y \o <<" ">> \o X),
                                             fuzzy |-> FALSE]
            ELSE fcall.result.fuzzy

\* "b -a" is resolved to "a b" by the swap, although "b a" is in the list too
C20_Witness ==
    /\ Returned("smart_breed_match")
    /\ fcall.args = <<Text(<<"b", " ", "-", "a">>), <<<<"b", " ", "a">>, <<"a", " ", "b">>>> >>
    /\ fcall.result = [value |-> Text(<<"a", " ", "b">>), fuzzy |-> FALSE]

\* the similarity ratio of a reference entry to the input is at least 0.6
Similar(entry, word) ==
    IF Len(entry) + Len(word) = 0 THEN TRUE
    ELSE 10 * Matches(entry, word) >= 3 * (Len(entry) + Len(word))

\* the swap heuristic applies: one hyphen, and the parts in swapped order are
\* a reference entry
SwapApplies(cs, entries) ==
    /\ Cardinality({i \in DOMAIN cs : cs[i] = "-"}) = 1
    /\ LET h == CHOOSE i \in DOMAIN cs : cs[i] = "-"
       IN  \E X \in TrimsOf(SubSeq(cs, 1, h - 1)), Y \in TrimsOf(SubSeq(cs, h + 1, Len(cs))) :
               (Y \o <<" ">> \o X) \in Range(entries)

\* what the claim says of the fuzzy threshold, for an input and a reference
\* list already in lower case
ThresholdRule(word, entries, resolved) ==
    LET near == {e \in Range(entries) : Similar(e, word)}
    IN  /\ near = {} => resolved = Unknown
        /\ Cardinality(near) = 1 => resolved = Text(CHOOSE e \in near : TRUE)
        /\ resolved # Unknown => resolved.chars \in near

\* C21 as stated: a breed string whose similarity to every reference entry
\* is below 0.6 resolves to "Unknown", one whose similarity is at least 0.6 to
\* exactly one entry resolves to that entry, and no entry with a similarity
\* below 0.6 is ever returned.
C21_Threshold ==
    Returned("enrich_data") =>
        ThresholdRule(breed_lower(fcall.args[1]).chars, valid_dog_breeds(fcall.args[2]),
                      fcall.result)

\* C21: the same whenever the swap heuristic does not apply; a name the swap
\* heuristic returns may have any similarity to the input.
C21_ThresholdWithoutSwap ==
    (Returned("enrich_data")
       /\ ~SwapApplies(breed_lower(fcall.args[1]).chars, valid_dog_breeds(fcall.args[2])))
        => ThresholdRule(breed_lower(fcall.args[1]).chars, valid_dog_breeds(fcall.args[2]),
                         fcall.result)

\* "Ab" resolves to the one reference entry "a b" (ratio 2 * 2 / 5), and
\* "bbbb", with ratio 0 to "a ", to Unknown
C21_Witness ==
    /\ Returned("enrich_data")
    /\ \/ /\ fcall.args = <<Text(<<"A", "b">>), <<<<"a", " ", "B">>, <<"A", " ", "b">>>> >>
          /\ fcall.result = Text(<<"a", " ", "b">>)
       \/ /\ fcall.args = <<Text(<<"b", "b", "b", "b">>), <<<<"a", " ">>>> >>
          /\ fcall.result = Unknown

\* the similarity ratio of x to the word is at least that of y
NoLessSimilar(x, y, word) ==
    Matches(x, word) * (Len(y) + Len(word)) >= Matches(y, word) * (Len(x) + Len(word))

\* C22: smart_breed_match is deterministic, and when several reference
\* entries tie for the highest similarity the entry returned is the one that
\* comes first in the reference list.
C22_FirstOfTies ==
    (Returned("smart_breed_match") /\ fcall.result.fuzzy /\ IsText(fcall.result.value)) =>
        LET word == fcall.args[1].chars
            entries == fcall.args[2]
            best == {i \in DOMAIN entries :
                        \A j \in DOMAIN entries : NoLessSimilar(entries[i], entries[j], word)}
        IN  /\ fcall.result = smart_breed_match(fcall.args[1], fcall.args[2])
            /\ fcall.result.value = Text(entries[SetMin(best)])

-----------------------------------------------------------------------------
(* Frame of the warehouse load *)

\* C23: the staging store is read-only during the warehouse load: every step
\* of build_warehouse, load_breeds_from_staging and load_events_from_staging
\* leaves the rows of staging_events, staging_dog_breeds and
\* staging_cat_breeds as they are; only the warehouse database is written.
C23_StagingReadOnly ==
    [][(op # "none" \/ op' # "none") =>
          UNCHANGED <<staging_events, staging_dog_breeds, staging_cat_breeds>>]_vars

\* a build has ended: the warehouse is filled and the staged rows are still there
C23_Witness ==
    /\ pc = "idle"
    /\ built >= 1
    /\ Staged = MaxStaged
    /\ wh.fact_event # {}
    /\ wh.dim_breed # {}

-----------------------------------------------------------------------------
(* load_data_to_warehouse of src/main_pipeline.py: one enriched row after   *)
(* another is written to the star schema of create_schema.  The function    *)
(* never rolls back (an exception skips the rest of the row), so what an     *)
(* execute has written stays written.  The run is held in fcall: args is    *)
(* the rows read so far, result the database and the count of events.       *)

MaxRows == 3

\* create_schema: every table dropped and created empty
create_schema ==
    [DimAnimal |-> {}, DimDrug |-> {}, DimGeography |-> {}, DimOutcome |-> {},
     DimReaction |-> {}, FactAdverseEvents |-> {}]

\* the UNIQUE columns of create_schema
StarUnique(table) ==
    CASE table = "DimOutcome" -> {"OutcomeName"}
      [] table = "DimReaction" -> {"ReactionName"}
      [] OTHER -> {}

\* the dates populate_time_dimension has written (2000 to 2025), with their TimeKey
DimTime == {[TimeKey |-> 1, Date |-> "2024-01-05"], [TimeKey |-> 2, Date |-> "2025-12-31"]}

\* SELECT TimeKey FROM DimTime WHERE Date = ?
TimeKeys(date) == {t.TimeKey : t \in {x \in DimTime : x.Date = date}}

\* str() of a DataFrame cell or of a value of the raw JSON
Str(j) ==
    CASE j.t = "str" -> j.s
      [] j.t = "null" -> "None"
      [] OTHER -> "<repr>"

\* a plain INSERT: [raised, db, lastrowid]; a UNIQUE column rejects a value
\* that is already there (NULLs are distinct)
Insert(db, table, key_col, values) ==
    IF \E col \in StarUnique(table) \cap DOMAIN values :
          \E r \in db[table] : ~IsNone(values[col]) /\ r[col] = values[col]
    THEN [raised |-> TRUE, db |-> db, lastrowid |-> 0]
    ELSE LET key == NextRowid(db[table], key_col)
         IN  [raised |-> FALSE,
              db |-> [db EXCEPT ![table] = @ \cup {(key_col :> key) @@ values}],
              lastrowid |-> key]

\* [raised, db, key]
get_or_create_key(db, table, values, key_col) ==
    LET result == {r[key_col] : r \in {x \in db[table] :
                       \A col \in DOMAIN values :
                           ~IsNone(values[col]) /\ x[col] = values[col]}}
    IN  IF result # {} THEN [raised |-> FALSE, db |-> db, key |-> SetMin(result)]
        ELSE LET cursor == Insert(db, table, key_col, values)
             IN  [raised |-> cursor.raised, db |-> cursor.db, key |-> cursor.lastrowid]

\* the outcome name of a row: [raised, name]
outcome_name(outcome_raw) ==
    IF IsList(outcome_raw) /\ Len(outcome_raw.items) > 0
    THEN IF IsDict(outcome_raw.items[1])
         THEN [raised |-> FALSE,
               name |-> GetDefault(outcome_raw.items[1], "medical_status", JStr("Unknown"))]
         ELSE [raised |-> TRUE, name |-> JNull]
    ELSE IF IsStr(outcome_raw) THEN [raised |-> FALSE, name |-> outcome_raw]
    ELSE [raised |-> FALSE, name |-> JStr("Unknown")]

\* a severity that compares the name as it is spelt
severity_as_spelt(name) ==
    IF Str(name) \in {"died", "euthanized"} THEN "Critical" ELSE "Normal"

severity(name) ==
    IF Lower(Str(name)) \in {"died", "euthanized"} THEN "Critical" ELSE "Normal"

\* the loop over reactions_list from its k-th entry on: [raised, db]
RECURSIVE load_reactions(_, _, _, _)
load_reactions(db, reactions_list, k, fact) ==
    IF k > Len(reactions_list) THEN [raised |-> FALSE, db |-> db]
    ELSE LET r == reactions_list[k]
         IN  IF ~IsDict(r) THEN [raised |-> TRUE, db |-> db]
             ELSE LET r_name == GetDefault(r, "veddra_term_name", JStr("Unknown"))
                      res == {x.ReactionKey : x \in {y \in db.DimReaction :
                                  ~IsNone(r_name) /\ y.ReactionName = r_name}}
                      cursor == IF res = {}
                                THEN Insert(db, "DimReaction", "ReactionKey",
                                            [ReactionName |-> r_name])
                                ELSE [raised |-> FALSE, db |-> db, lastrowid |-> SetMin(res)]
                      inserted == Insert(cursor.db, "FactAdverseEvents", "EventID",
                                         fact @@ [ReactionKey |-> cursor.lastrowid])
                 IN  IF cursor.raised \/ ~Bindable([ReactionName |-> r_name])
                     THEN [raised |-> TRUE, db |-> db]
                     ELSE load_reactions(inserted.db, reactions_list, k + 1, fact)

\* the body of the loop for one row: [db, counted]
load_row(db, row) ==
    LET time_res == TimeKeys(row.event_date)
        animal == get_or_create_key(db, "DimAnimal",
                      [Species |-> JStr(Str(row.species)), Breed |-> JStr(Str(row.breed)),
                       Gender |-> JStr(Str(row.gender)),
                       ReproductiveStatus |-> JStr(Str(row.reproductive_status)),
                       BreedGroup |-> JStr(Str(row.breed_group)),
                       BreedPurpose |-> JStr(Str(row.bred_for))], "AnimalKey")
        drug == get_or_create_key(animal.db, "DimDrug",
                      [BrandName |-> JStr(Str(row.brand_name)),
                       ActiveIngredients |-> JStr(Str(row.active_ingredient_normalized)),
                       Manufacturer |-> JStr(Str(row.manufacturer_name))], "DrugKey")
        geo == get_or_create_key(drug.db, "DimGeography",
                      [City |-> JStr(Str(row.receiver_city)),
                       State |-> JStr(Str(row.receiver_state)),
                       Country |-> JStr(Str(row.receiver_country)),
                       PostalCode |-> JStr(Str(row.receiver_postal_code))], "GeographyKey")
        found == outcome_name(row.outcome)
        outcome == get_or_create_key(geo.db, "DimOutcome",
                      [OutcomeName |-> JStr(Str(found.name)),
                       SeverityLevel |-> JStr(severity(found.name))], "OutcomeKey")
        fact == [FDA_ReportID |-> JStr(Str(row.report_id)), TimeKey |-> SetMin(time_res),
                 AnimalKey |-> animal.key, DrugKey |-> drug.key,
                 GeographyKey |-> geo.key, OutcomeKey |-> outcome.key,
                 Age |-> row.age_min, Weight |-> row.weight_min,
                 DaysToOnset |-> row.days_to_onset]
        facts == IF IsList(row.reaction)
                 THEN load_reactions(outcome.db, row.reaction.items, 1, fact)
                 ELSE [raised |-> FALSE, db |-> outcome.db]
    IN  IF row.event_date = "NaT" \/ time_res = {} THEN [db |-> db, counted |-> FALSE]
        ELSE IF found.raised THEN [db |-> geo.db, counted |-> FALSE]
        ELSE IF outcome.raised THEN [db |-> geo.db, counted |-> FALSE]
        ELSE [db |-> facts.db, counted |-> ~facts.raised]

\* the rows of df_enriched
MedicalStatus(s) == JObj("medical_status" :> s)
RawOutcomes ==
    {JNull, JList(<<>>), JStr("Died"), JList(<<JStr("Died")>>), JList(<<JEmptyObj>>),
     JList(<<MedicalStatus(JNull)>>),
     JList(<<MedicalStatus(JStr("Recovered")), MedicalStatus(JStr("Died"))>>)}
    \cup {JList(<<MedicalStatus(JStr(s))>>) :
            s \in {"Died", "died", "DIED", "Euthanized", "Recovered", "Unknown"}}

TermVomiting == JObj("veddra_term_name" :> JStr("Vomiting"))
TermLethargy == JObj("veddra_term_name" :> JStr("Lethargy"))
RawReactionLists ==
    {JNull, JList(<<TermVomiting>>), JList(<<TermVomiting, TermLethargy>>),
     JList(<<JObj("veddra_term_name" :> JNull)>>), JList(<<TermVomiting, JStr("Lethargy")>>)}

EnrichedRow(date, outcome, reaction, id) ==
    [event_date |-> date, species |-> JStr("Dog"), breed |-> JStr("labrador"),
     gender |-> JStr("Male"), reproductive_status |-> JStr("Neutered"),
     breed_group |-> JStr("Sporting"), bred_for |-> JNull,
     brand_name |-> JNull, active_ingredient_normalized |-> JStr("Ibuprofen"),
     manufacturer_name |-> JStr("Acme"), receiver_city |-> JNull,
     receiver_state |-> JStr("TX"), receiver_country |-> JStr("USA"),
     receiver_postal_code |-> JNull, outcome |-> outcome, reaction |-> reaction,
     report_id |-> JStr(id), age_min |-> JInt(3), weight_min |-> JInt(20),
     days_to_onset |-> JNull]

EnrichedRows ==
    {EnrichedRow("2024-01-05", o, JList(<<TermVomiting>>), "R1") : o \in RawOutcomes}
    \cup {EnrichedRow("2025-12-31", JList(<<MedicalStatus(JStr("Died"))>>), r, "R2") :
            r \in RawReactionLists}
    \cup {EnrichedRow(d, JList(<<MedicalStatus(JStr("Euthanized"))>>), JNull, "R3") :
            d \in {"NaT", "1999-12-31"}}

LoadInit ==
    /\ PipelineIdle
    /\ fcall = [fn |-> "load_data_to_warehouse", args |-> <<>>, done |-> FALSE,
                result |-> [db |-> create_schema, count |-> 0]]

\* one iteration of "for index, row in df_enriched.iterrows()"
LoadRow ==
    /\ fcall.fn = "load_data_to_warehouse"
    /\ ~fcall.done
    /\ Len(fcall.args) < MaxRows
    /\ \E row \in EnrichedRows :
          LET loaded == load_row(fcall.result.db, row)
          IN  fcall' = [fcall EXCEPT
                          !.args = Append(@, row),
                          !.result = [db |-> loaded.db,
                                      count |-> IF loaded.counted THEN @.count + 1
                                                ELSE @.count]]
    /\ PipelineUnchanged

\* the rows are exhausted: the last commit
LoadReturn ==
    /\ fcall.fn = "load_data_to_warehouse"
    /\ ~fcall.done
    /\ fcall' = [fcall EXCEPT !.done = TRUE]
    /\ PipelineUnchanged

LoadNext == LoadRow \/ LoadReturn

LoadSpec == LoadInit /\ [][LoadNext]_vars

DimOutcomeRows == fcall.result.db.DimOutcome

\* every outcome name has exactly one row
OneRowPerName ==
    \A r \in DimOutcomeRows, s \in DimOutcomeRows :
        r.OutcomeName = s.OutcomeName => r = s

\* C24: in the DimOutcome table written by load_data_to_warehouse every
\* outcome name has exactly one row, and that row's SeverityLevel is
\* "Critical" when the name is Died or Euthanized and "Normal" for every
\* other name.
C24_SeverityByName ==
    fcall.fn = "load_data_to_warehouse" =>
        /\ OneRowPerName
        /\ \A r \in DimOutcomeRows :
              r.SeverityLevel.s = (IF r.OutcomeName.s \in {"Died", "Euthanized"}
                                 THEN "Critical" ELSE "Normal")

\* C24 as the code has it: the name is compared without regard to case, so
\* "died" and "DIED" are Critical as well.
C24_SeverityIgnoringCase ==
    fcall.fn = "load_data_to_warehouse" =>
        /\ OneRowPerName
        /\ \A r \in DimOutcomeRows :
              r.SeverityLevel.s = (IF r.OutcomeName.s \in {"Died", "Euthanized", "died", "DIED",
                                                       "euthanized", "EUTHANIZED"}
                                 THEN "Critical" ELSE "Normal")

\* the same outcome was loaded from several rows, in several spellings
C24_Witness ==
    /\ fcall.fn = "load_data_to_warehouse"
    /\ fcall.done
    /\ fcall.result.count = MaxRows
    /\ {r.OutcomeName.s : r \in DimOutcomeRows} = {"Died", "DIED"}
    /\ Cardinality(fcall.result.db.FactAdverseEvents) >= MaxRows

-----------------------------------------------------------------------------
(* The value of a weight or age object *)

\* the keys of a value object in the order they are tried
ValueKeys(fn) ==
    IF fn = "_normalize_weight" THEN <<"min", "max", "value", "weight">>
    ELSE <<"min", "max", "value", "age">>

\* the value under the first key that is present and not null
FirstPresent(v, keys) ==
    LET present == {i \in DOMAIN keys : ~IsNone(Get(v, keys[i]))}
    IN  IF present = {} THEN JNull ELSE Get(v, keys[SetMin(present)])

\* the object is a value object whose first present key holds a number
NumberFirst ==
    /\ fcall.done
    /\ fcall.fn \in {"_normalize_weight", "_normalize_age"}
    /\ IsDict(fcall.args[1])
    /\ FirstPresent(fcall.args[1], ValueKeys(fcall.fn)).t = "num"

\* C25: when the weight (or age) is given as an object, the value converted
\* is the one under the first key, in the order min, max, value, weight (age
\* for age), that is present with a numeric value; a later key is consulted
\* only when every earlier key is absent or null, so an object whose min is
\* the number 0 yields 0 and not its max.
C25_FirstPresentKey ==
    NumberFirst =>
        LET chosen == FirstPresent(fcall.args[1], ValueKeys(fcall.fn))
            unit == RawUnit(fcall.args[1], fcall.args[2])
        IN  fcall.result = (IF fcall.fn = "_normalize_weight"
                            THEN normalize_weight(chosen, unit)
                            ELSE normalize_age(chosen, unit))

-----------------------------------------------------------------------------
(* Several staged records with one report id *)

\* the loader has processed one more staged record without raising
RecordLoaded == pc = "events" /\ pc' = "events" /\ idx' = idx + 1

\* every name is linked to the event in the bridge table of its dimension
Linked(db, event_key, names, dim_table, key_col, name_col, bridge_table) ==
    \A i \in DOMAIN names :
        \E d \in db[dim_table] :
            /\ d[name_col] = JStr(names[i])
            /\ \E b \in db[bridge_table] :
                  b.event_key = JInt(event_key) /\ b[key_col] = JInt(d[key_col])

\* C26: first record wins for fact attributes, bridges accumulate: when a
\* staged record carries the report_id of a fact_event row that is already
\* there, no column of that row (nor of any other fact row) changes, the
\* reactions, outcomes and ingredients of the record are linked to the
\* event_key of that row, and no bridge row is removed, so the bridge rows of
\* the event are the union over all records with its report_id.
C26_FirstWinsBridgesAccumulate ==
    [][RecordLoaded /\ WellFormed(staging_events[idx + 1]) =>
          LET line == staging_events[idx + 1]
              before == conn.db
              after == conn'.db
              same == {f \in before.fact_event : f.report_id = ReportId(line)}
          IN  /\ before.fact_event \subseteq after.fact_event
              /\ \A table \in BridgeTables : before[table] \subseteq after[table]
              /\ same # {} =>
                   /\ after.fact_event = before.fact_event
                   /\ \A f \in same :
                        /\ Linked(after, f.event_key, extract_reactions(line).names,
                                  "dim_reaction", "reaction_key", "reaction_name",
                                  "bridge_event_reaction")
                        /\ Linked(after, f.event_key, extract_outcomes(line).names,
                                  "dim_outcome", "outcome_key", "outcome_name",
                                  "bridge_event_outcome")
                        /\ Linked(after, f.event_key, extract_active_ingredients(line).names,
                                  "dim_active_ingredient", "ingredient_key",
                                  "ingredient_name", "bridge_event_ingredient")
                        /\ \A table \in BridgeTables :
                              \A b \in after[table] \ before[table] :
                                  b.event_key = JInt(f.event_key)]_vars

\* R1 staged twice with different animals and different reactions: the fact
\* row is the dog of the first record, the bridges hold the names of both
C26_Witness ==
    /\ pc = "events"
    /\ idx = 2
    /\ staging_events = <<EventR1, EventR1Again>>
    /\ Cardinality(conn.db.fact_event) = 1
    /\ \A f \in conn.db.fact_event : f.species = JStr("Dog") /\ IsNone(f.event_date)
    /\ Cardinality(conn.db.bridge_event_reaction) = 2
    /\ Cardinality(conn.db.bridge_event_outcome) = 2

-----------------------------------------------------------------------------
(* The transaction of load_events_from_staging *)

\* C27: load_events_from_staging is all-or-nothing: the warehouse changes
\* only at the single commit after the last staged record, where it becomes
\* what the call has written; a step on which processing a record raises
\* ends the call and leaves the warehouse exactly as it was before the call.
C27_AllOrNothing ==
    [][pc = "events" =>
          /\ wh' # wh => /\ idx = Len(staging_events)
                         /\ ~raised'
                         /\ pc' = "idle"
                         /\ wh' = conn.db
          /\ raised' => /\ wh' = wh
                        /\ pc' = "idle"
                        /\ ~conn'.open
          /\ pc' = "events" => wh' = wh]_vars

\* with no breed staged, a call has raised on the line after R1: the rows it
\* wrote for R1 are not in the warehouse
C27_Witness ==
    /\ raised
    /\ pc = "idle"
    /\ staging_events = <<EventR1, Unparseable>>
    /\ staging_dog_breeds = <<>>
    /\ staging_cat_breeds = <<>>
    /\ wh = init_warehouse

-----------------------------------------------------------------------------
(* normalize_weight of src/src/etl/load_dw.py.  A unit string is the        *)
(* record Text(cs) of its characters, so that "lb" in u can be computed.     *)

\* 0.453592, 0.0283495 and 1000.0 as fractions
DwPoundNum == 453592
DwPoundDen == 1000000
DwOunceNum == 283495
DwOunceDen == 10000000
DwGramDen == 1000

\* str.lower() on the letters of the unit vocabulary
UpperToLower ==
    ("K" :> "k") @@ ("G" :> "g") @@ ("L" :> "l") @@ ("B" :> "b") @@ ("S" :> "s")
    @@ ("O" :> "o") @@ ("Z" :> "z") @@ ("M" :> "m")

LowerWord(cs) ==
    [i \in DOMAIN cs |-> IF cs[i] \in DOMAIN UpperToLower THEN UpperToLower[cs[i]] ELSE cs[i]]

\* word in u
In(word, u) ==
    \E i \in 1..(Len(u) - Len(word) + 1) : SubSeq(u, i, i + Len(word) - 1) = word

\* "if not val" / "if unit" for the values and units of the model
Falsy(x) == IF IsText(x) THEN x.chars = <<>> ELSE ~Truthy(x)

\* "g" == u or "gram" in u
IsGram(u) == u = <<"g">> \/ In(<<"g", "r", "a", "m">>, u)

\* every exception is caught by the bare except and turns into None
dw_normalize_weight(val, unit) ==
    IF Falsy(val) THEN JNull
    ELSE LET v == Float(val)
         IN  IF v = Raise \/ IsNone(v) THEN JNull
             ELSE IF Falsy(unit) THEN v
             ELSE IF ~IsText(unit) THEN JNull
             ELSE LET u == LowerWord(unit.chars)
                  IN  IF In(<<"l", "b">>, u) \/ In(<<"p", "o", "u", "n", "d">>, u)
                      THEN Mul(v, DwPoundNum, DwPoundDen)
                      ELSE IF In(<<"o", "z">>, u) \/ In(<<"o", "u", "n", "c", "e">>, u)
                      THEN Mul(v, DwOunceNum, DwOunceDen)
                      ELSE IF IsGram(u) THEN Mul(v, 1, DwGramDen)
                      ELSE v

KilogramWords ==
    {<<"k", "g">>, <<"k", "i", "l", "o", "g", "r", "a", "m">>,
     <<"k", "i", "l", "o", "g", "r", "a", "m", "s">>}
PoundWords == {<<"l", "b">>, <<"l", "b", "s">>, <<"p", "o", "u", "n", "d">>,
               <<"p", "o", "u", "n", "d", "s">>}
OunceWords == {<<"o", "z">>, <<"o", "u", "n", "c", "e">>, <<"o", "u", "n", "c", "e", "s">>}
GramWords == {<<"g">>, <<"g", "r", "a", "m">>, <<"g", "r", "a", "m", "s">>}

\* the min of a weight object
DwValues ==
    {JNull, JStr(""), JStr("abc"), JStr("nan"), JStr("10"), JStr("1.5"), JInt(0), JInt(20),
     JNum(5, 2), JBigInt, JList(<<JInt(1)>>)}

\* the unit of a weight object
DwUnits ==
    {Text(w) : w \in KilogramWords \cup PoundWords \cup OunceWords \cup GramWords}
    \cup {Text(<<>>), Text(<<"K", "G">>), Text(<<"L", "B", "S">>), Text(<<"O", "z">>),
          Text(<<"G">>), Text(<<"m", "g">>),
          Text(<<"K", "i", "l", "o", "g", "r", "a", "m">>)}
    \cup {JNull, JInt(0), JInt(5), JList(<<>>)}

DwNormInit ==
    /\ PipelineIdle
    /\ fcall \in {Pending("normalize_weight", <<val, unit>>) : val \in DwValues, unit \in DwUnits}

CallDwNormalizeWeight ==
    /\ fcall.fn = "normalize_weight"
    /\ Return("normalize_weight", dw_normalize_weight(fcall.args[1], fcall.args[2]))

DwNormNext == CallDwNormalizeWeight

DwNormSpec == DwNormInit /\ [][DwNormNext]_vars

\* C29: normalize_weight of load_dw.py returns a value in kilograms for every
\* unit: a numeric value whose unit denotes kilograms (kg, kilogram,
\* kilograms, in any letter case) or is missing is returned unchanged, pounds
\* are multiplied by 0.453592, ounces by 0.0283495, and only a gram unit (g,
\* gram, grams) is divided by 1000.
C29_Kilograms ==
    (Returned("normalize_weight") /\ Float(fcall.args[1]).t = "num"
       /\ ~Falsy(fcall.args[1])) =>
        LET v == Float(fcall.args[1])
            unit == fcall.args[2]
            u == IF IsText(unit) THEN LowerWord(unit.chars) ELSE <<>>
        IN  /\ (IsNone(unit) \/ unit = Text(<<>>) \/ u \in KilogramWords) => fcall.result = v
            /\ u \in PoundWords => fcall.result = Mul(v, DwPoundNum, DwPoundDen)
            /\ u \in OunceWords => fcall.result = Mul(v, DwOunceNum, DwOunceDen)
            /\ u \in GramWords => fcall.result = Mul(v, 1, DwGramDen)
            /\ (IsText(unit) /\ fcall.result = Mul(v, 1, DwGramDen)) => u \in GramWords

-----------------------------------------------------------------------------
(* load_final_fixed of src/src/etl/load_dw.py over the schema of            *)
(* src/src/etl/create_dw.py.  The run is held in fcall: args is the raw     *)
(* files, result the database and the number of runs made over them.        *)

MaxEvents == 2
MaxRuns == 2

\* the tables with an AUTOINCREMENT key and their key column
DwKeyCol ==
    ("dim_animal" :> "animal_key") @@ ("dim_drug" :> "drug_key")
    @@ ("dim_reaction" :> "reaction_key") @@ ("fact_analysis" :> "fact_id")

\* create_flattened_schema on a new file: empty tables; sqlite_sequence holds
\* the largest key each AUTOINCREMENT table has ever assigned
create_flattened_schema ==
    [dim_date |-> {}, dim_animal |-> {}, dim_drug |-> {}, dim_reaction |-> {},
     fact_analysis |-> {}, sqlite_sequence |-> [t \in DOMAIN DwKeyCol |-> 0]]

\* INSERT INTO an AUTOINCREMENT table: [db, lastrowid]
DwInsert(db, table, values) ==
    LET key == db.sqlite_sequence[table] + 1
    IN  [db |-> [db EXCEPT ![table] = @ \cup {(DwKeyCol[table] :> key) @@ values},
                           !.sqlite_sequence[table] = key],
         lastrowid |-> key]

\* datetime.strptime(s, "%Y%m%d") on the date strings of the model, with the
\* day's ordinal; every other string has another length or is no date
DateTable ==
    ("20240101" :> [date_key |-> 20240101, full_date |-> "2024-01-01", year |-> 2024,
                    month |-> 1, ordinal |-> 738886])
    @@ ("20240105" :> [date_key |-> 20240105, full_date |-> "2024-01-05", year |-> 2024,
                       month |-> 1, ordinal |-> 738890])

NoDate == [date_key |-> 0, full_date |-> "", year |-> 0, month |-> 0, ordinal |-> 0]

parse_date(date_str) ==
    IF IsStr(date_str) /\ date_str.s \in DOMAIN DateTable THEN DateTable[date_str.s]
    ELSE NoDate

\* abs((receive_date - onset_date).days), None without one of the dates
calculate_days(receive_date, onset_date) ==
    IF receive_date = NoDate \/ onset_date = NoDate THEN JNull
    ELSE JInt(Abs(receive_date.ordinal - onset_date.ordinal))

dw_normalize_age(val, unit) ==
    IF Falsy(val) THEN JNull
    ELSE LET v == Float(val)
         IN  IF v = Raise \/ IsNone(v) THEN JNull
             ELSE IF Falsy(unit) THEN v
             ELSE IF ~IsText(unit) THEN JNull
             ELSE LET u == LowerWord(unit.chars)
                  IN  IF In(<<"m", "o", "n", "t", "h">>, u) THEN Mul(v, 1, 12)
                      ELSE IF In(<<"w", "e", "e", "k">>, u) THEN Mul(v, 1, 52)
                      ELSE IF In(<<"d", "a", "y">>, u) THEN Mul(v, 1, 365)
                      ELSE v

\* clean_breed_name on the breed names of the model: "Group - Breed" becomes
\* "Breed Group", in title case
CleanTable ==
    ("retriever - labrador" :> "Labrador Retriever")
    @@ ("labrador retriever" :> "Labrador Retriever")
    @@ (" siamese" :> "Siamese") @@ ("Unknown" :> "Unknown")

clean_breed_name(name) ==
    IF ~Truthy(name) THEN "Unknown"
    ELSE IF IsStr(name) /\ name.s \in DOMAIN CleanTable THEN CleanTable[name.s]
    ELSE Str(name)

\* breed_ref: the entries of the two reference files by (species, name); a
\* later entry replaces an earlier one with the same key
BreedEntries(file, species) ==
    IF file = Absent THEN <<>>
    ELSE [i \in DOMAIN file.items |->
             [species |-> species,
              name |-> Lower(Strip(GetDefault(file.items[i], "name", JStr("")).s)),
              group |-> Get(file.items[i], "breed_group"),
              temp |-> Get(file.items[i], "temperament")]]

breed_ref(dogs, cats) == BreedEntries(dogs, "Dog") \o BreedEntries(cats, "Cat")

NoLookup == [group |-> JNull, temp |-> JNull, found |-> FALSE]

\* breed_ref.get((species, name), {})
Lookup(ref, species, name) ==
    LET hits == {i \in DOMAIN ref : JStr(ref[i].species) = species /\ ref[i].name = name}
    IN  IF hits = {} THEN NoLookup
        ELSE [group |-> ref[SetMax(hits)].group, temp |-> ref[SetMax(hits)].temp,
              found |-> TRUE]

NoCache == [x \in {} |-> 0]

\* a step and the rest of the loop after it: an exception raised by the step
\* propagates, otherwise the rest runs on the state the step leaves
AndThen(done, rest(_)) == IF done.raised THEN done ELSE rest(done.st)

\* the loop over reactions from its k-th entry on: [raised, st]
RECURSIVE dw_reactions(_, _, _, _, _)
dw_reactions(st, reactions, k, d_key, fact) ==
    IF k > Len(reactions) THEN [raised |-> FALSE, st |-> st]
    ELSE IF ~IsDict(reactions[k]) THEN [raised |-> TRUE, st |-> st]
    ELSE LET term == Get(reactions[k], "veddra_term_name")
             present == {r.reaction_key : r \in {x \in st.db.dim_reaction :
                                                    x.reaction_term = term}}
             inserted == IF present = {}
                         THEN DwInsert(st.db, "dim_reaction", [reaction_term |-> term])
                         ELSE [db |-> st.db, lastrowid |-> SetMin(present)]
             cached == IF term \in DOMAIN st.reaction_cache THEN st
                       ELSE [st EXCEPT !.db = inserted.db,
                                       !.reaction_cache = (term :> inserted.lastrowid) @@ @]
             r_key == cached.reaction_cache[term]
             facts == IF r_key # 0 /\ d_key # 0
                      THEN [cached EXCEPT
                              !.db = DwInsert(@, "fact_analysis",
                                              fact @@ [drug_key |-> d_key,
                                                       reaction_key |-> r_key]).db]
                      ELSE cached
         IN  IF ~Truthy(term) THEN dw_reactions(st, reactions, k + 1, d_key, fact)
             ELSE IF ~IsStr(term) THEN [raised |-> TRUE, st |-> st]
             ELSE dw_reactions(facts, reactions, k + 1, d_key, fact)

\* ing_list of one drug
ing_list(drug) ==
    LET listed == GetDefault(drug, "active_ingredients", JList(<<>>))
        names == [i \in DOMAIN listed.items |-> Get(listed.items[i], "name")]
    IN  IF names # <<>> THEN names ELSE <<Get(drug, "brand_name")>>

\* the loop over ing_list from its k-th entry on: [raised, st]
RECURSIVE dw_ingredients(_, _, _, _, _, _)
dw_ingredients(st, drug, ingredients, k, reactions, fact) ==
    IF k > Len(ingredients) THEN [raised |-> FALSE, st |-> st]
    ELSE LET ingredient == ingredients[k]
             inserted == DwInsert(st.db, "dim_drug",
                                  [active_ingredient |-> ingredient,
                                   drug_name |-> Get(drug, "brand_name"),
                                   route |-> JNull])
             cached == IF ingredient \in DOMAIN st.drug_cache THEN st
                       ELSE [st EXCEPT !.db = inserted.db,
                                       !.drug_cache = (ingredient :> inserted.lastrowid) @@ @]
         IN  IF ~Truthy(ingredient) THEN dw_ingredients(st, drug, ingredients, k + 1,
                                                        reactions, fact)
             ELSE IF ~IsStr(ingredient) THEN [raised |-> TRUE, st |-> st]
             ELSE AndThen(dw_reactions(cached, reactions, 1,
                                       cached.drug_cache[ingredient], fact),
                          LAMBDA s : dw_ingredients(s, drug, ingredients, k + 1,
                                                    reactions, fact))

\* the loop over drugs from its k-th entry on: [raised, st]
RECURSIVE dw_drugs(_, _, _, _, _)
dw_drugs(st, drugs, k, reactions, fact) ==
    IF k > Len(drugs) THEN [raised |-> FALSE, st |-> st]
    ELSE IF ~IsDict(drugs[k]) THEN [raised |-> TRUE, st |-> st]
    ELSE IF ~IsList(GetDefault(drugs[k], "active_ingredients", JList(<<>>)))
            \/ \E i \in DOMAIN GetDefault(drugs[k], "active_ingredients", JList(<<>>)).items :
                  ~IsDict(GetDefault(drugs[k], "active_ingredients", JList(<<>>)).items[i])
    THEN [raised |-> TRUE, st |-> st]
    ELSE AndThen(dw_ingredients(st, drugs[k], ing_list(drugs[k]), 1, reactions, fact),
                 LAMBDA s : dw_drugs(s, drugs, k + 1, reactions, fact))

\* the well-typed nested values the body reads without raising
Nested(animal) ==
    /\ IsDict(animal)
    /\ IsDict(GetDefault(animal, "age", JEmptyObj))
    /\ IsDict(GetDefault(animal, "weight", JEmptyObj))
    /\ IsDict(GetDefault(animal, "breed", JEmptyObj))

\* the body of "for event in events": [raised, st]
dw_event(st, event, ref) ==
    LET event_id == Get(event, "unique_aer_id_number")
        rec_date == parse_date(Get(event, "original_receive_date"))
        onset_date == parse_date(Get(event, "onset_date"))
        dated == IF rec_date = NoDate
                    \/ \E d \in st.db.dim_date : d.date_key = rec_date.date_key
                 THEN st.db
                 ELSE [st.db EXCEPT !.dim_date = @ \cup
                          {[date_key |-> rec_date.date_key, full_date |-> rec_date.full_date,
                            year |-> rec_date.year, month |-> rec_date.month]}]
        animal == GetDefault(event, "animal", JEmptyObj)
        species == GetDefault(animal, "species", JStr("Unknown"))
        age_obj == GetDefault(animal, "age", JEmptyObj)
        w_obj == GetDefault(animal, "weight", JEmptyObj)
        component == GetDefault(GetDefault(animal, "breed", JEmptyObj), "breed_component",
                                JStr("Unknown"))
        breed_raw == IF IsList(component) THEN component.items[1] ELSE component
        breed_clean == clean_breed_name(breed_raw)
        first == Lookup(ref, species, Lower(breed_clean))
        lookup == IF first.found THEN first ELSE Lookup(ref, species, Lower(breed_raw.s))
        with_animal == DwInsert(dated, "dim_animal",
                           [species |-> species, breed |-> JStr(breed_clean),
                            gender |-> Get(animal, "gender"),
                            breeding_group |-> lookup.group, temperament |-> lookup.temp])
        outcome_list == GetDefault(event, "outcome", JList(<<>>))
        outcome == IF Truthy(outcome_list)
                   THEN GetDefault(outcome_list.items[1], "medical_status", JStr("Unknown"))
                   ELSE JStr("Unknown")
        drugs == GetDefault(event, "drug", JList(<<>>))
        reactions == GetDefault(event, "reaction", JList(<<>>))
        fact == [event_id |-> event_id, animal_key |-> with_animal.lastrowid,
                 received_date_key |-> IF rec_date = NoDate THEN JNull
                                       ELSE JInt(rec_date.date_key),
                 days_to_reaction |-> calculate_days(rec_date, onset_date),
                 weight_kg |-> dw_normalize_weight(Get(w_obj, "min"), Get(w_obj, "unit")),
                 age_years |-> dw_normalize_age(Get(age_obj, "min"), Get(age_obj, "unit")),
                 outcome |-> outcome]
    IN  IF ~Truthy(event_id) THEN [raised |-> FALSE, st |-> st]
        ELSE IF ~Nested(animal) THEN [raised |-> TRUE, st |-> st]
        ELSE IF IsList(component) /\ component.items = <<>> THEN [raised |-> TRUE, st |-> st]
        ELSE IF ~first.found /\ ~IsStr(breed_raw) THEN [raised |-> TRUE, st |-> st]
        ELSE IF Truthy(outcome_list)
                /\ ~(IsList(outcome_list) /\ IsDict(outcome_list.items[1]))
        THEN [raised |-> TRUE, st |-> st]
        ELSE IF ~Truthy(drugs) \/ ~Truthy(reactions)
        THEN [raised |-> FALSE, st |-> [st EXCEPT !.db = with_animal.db]]
        ELSE IF ~IsList(drugs) \/ ~IsList(reactions) THEN [raised |-> TRUE, st |-> st]
        ELSE AndThen(dw_drugs([st EXCEPT !.db = with_animal.db], drugs.items, 1,
                              reactions.items, fact),
                     LAMBDA s : [raised |-> FALSE, st |-> [s EXCEPT !.count = @ + 1]])

\* the loop over events from its k-th entry on: [raised, st]
RECURSIVE dw_events(_, _, _, _)
dw_events(st, events, k, ref) ==
    IF k > Len(events) THEN [raised |-> FALSE, st |-> st]
    ELSE AndThen(dw_event(st, events[k], ref),
                 LAMBDA s : dw_events(s, events, k + 1, ref))

\* the database a run leaves: what it committed, the database it found if it
\* raised
Committed(db, done) == IF done.raised THEN db ELSE done.st.db

\* one call of load_final_fixed on the database db: the database it leaves.
\* Nothing is committed before the final commit (fewer than 2000 events), so
\* a call that raises leaves the database as it found it.
load_final_fixed(db, files) ==
    IF files.events = Absent THEN db
    ELSE LET cleared == [db EXCEPT !.fact_analysis = {}, !.dim_animal = {}]
             start == [db |-> cleared, drug_cache |-> NoCache, reaction_cache |-> NoCache,
                       count |-> 0]
         IN  Committed(db, dw_events(start, files.events.items, 1,
                                     breed_ref(files.dogs, files.cats)))

\* the events of data/raw/fda_events.json
TermOf(name) == JObj("veddra_term_name" :> JStr(name))
DwEventA1 ==
    JObj(("unique_aer_id_number" :> JStr("A1")) @@ ("original_receive_date" :> JStr("20240105"))
      @@ ("onset_date" :> JStr("20240101"))
      @@ ("animal" :> JObj(("species" :> JStr("Dog")) @@ ("gender" :> JStr("Male"))
             @@ ("breed" :> JObj("breed_component" :> JStr("retriever - labrador")))
             @@ ("age" :> JObj(("min" :> JStr("2")) @@ ("unit" :> Text(<<"M", "o", "n", "t", "h">>))))
             @@ ("weight" :> JObj(("min" :> JStr("10")) @@ ("unit" :> Text(<<"l", "b">>))))))
      @@ ("outcome" :> JList(<<JObj("medical_status" :> JStr("Died"))>>))
      @@ ("drug" :> JList(<<JObj(("active_ingredients" :>
                                    JList(<<JObj("name" :> JStr("Ibuprofen"))>>))
                                 @@ ("brand_name" :> JStr("Advil")))>>))
      @@ ("reaction" :> JList(<<TermOf("Vomiting")>>)))
DwEventA2 ==
    JObj(("unique_aer_id_number" :> JStr("A2")) @@ ("animal" :> JEmptyObj)
      @@ ("drug" :> JList(<<JObj("brand_name" :> JStr("Advil"))>>))
      @@ ("reaction" :> JList(<<TermOf("Vomiting"), TermOf("Lethargy")>>)))
DwEventA3 ==
    JObj(("unique_aer_id_number" :> JStr("A3"))
      @@ ("drug" :> JList(<<JObj("active_ingredients" :>
                                   JList(<<JObj("name" :> JStr("Ibuprofen")),
                                           JObj("name" :> JStr("Aspirin"))>>))>>))
      @@ ("reaction" :> JList(<<JEmptyObj>>)))
DwEventNoId == JObj("animal" :> JObj("species" :> JStr("Cat")))
DwEventA5 ==
    JObj(("unique_aer_id_number" :> JStr("A5"))
      @@ ("animal" :> JObj(("species" :> JStr("Cat"))
             @@ ("breed" :> JObj("breed_component" :> JList(<<JStr(" siamese")>>)))))
      @@ ("drug" :> JList(<<>>)) @@ ("reaction" :> JList(<<TermOf("Vomiting")>>)))
DwEventA6 ==
    JObj(("unique_aer_id_number" :> JStr("A6")) @@ ("animal" :> JNull)
      @@ ("drug" :> JList(<<JObj("brand_name" :> JStr("Advil"))>>))
      @@ ("reaction" :> JList(<<TermOf("Vomiting")>>)))

DwEvents == {DwEventA1, DwEventA2, DwEventA3, DwEventNoId, DwEventA5, DwEventA6}

DwDogFiles ==
    {Absent,
     JList(<<JObj(("name" :> JStr("Labrador Retriever")) @@ ("breed_group" :> JStr("Sporting"))
                    @@ ("temperament" :> JStr("Friendly")))>>)}

RawFiles ==
    {[events |-> e, dogs |-> d, cats |-> Absent] :
        e \in {Absent} \cup {JList(es) : es \in SeqsUpTo(DwEvents, MaxEvents)},
        d \in DwDogFiles}

ReloadInit ==
    /\ PipelineIdle
    /\ \E files \in RawFiles :
          fcall = [fn |-> "load_final_fixed", args |-> files, done |-> FALSE,
                   result |-> [db |-> create_flattened_schema, runs |-> 0]]

\* python load_dw.py, once more over the same raw files
Reload ==
    /\ fcall.fn = "load_final_fixed"
    /\ fcall.result.runs < MaxRuns
    /\ fcall' = [fcall EXCEPT !.result = [db |-> load_final_fixed(@.db, fcall.args),
                                          runs |-> @.runs + 1],
                              !.done = TRUE]
    /\ PipelineUnchanged

ReloadNext == Reload

ReloadSpec == ReloadInit /\ [][ReloadNext]_vars

\* the database a single run over the files leaves
SingleRun(files) == load_final_fixed(create_flattened_schema, files)

\* C28: load_final_fixed is a repeatable reload: after any number of runs
\* over the same raw files, fact_analysis, dim_animal, dim_drug and
\* dim_reaction each hold as many rows as after a single run, and dim_drug
\* holds at most one row per active ingredient.
C28_RepeatableReload ==
    (fcall.fn = "load_final_fixed" /\ fcall.result.runs >= 1) =>
        LET db == fcall.result.db
            once == SingleRun(fcall.args)
        IN  /\ \A table \in DOMAIN DwKeyCol :
                  Cardinality(db[table]) = Cardinality(once[table])
            /\ \A d1, d2 \in db.dim_drug :
                  d1.active_ingredient = d2.active_ingredient => d1 = d2

-----------------------------------------------------------------------------
(* fetch_openfda_events of src/bi/extract.py.  The call is held in fcall:   *)
(* args is (limit, page_size), result the local variables results and skip  *)
(* and the log of the requests made.  A record is the offset it has in the  *)
(* server's result set; the server answers a request with any number of     *)
(* records, from none to one more than was asked for.                       *)

MaxLimit == 4
MaxPageSize == 3

Min(a, b) == IF a < b THEN a ELSE b

\* a request that always asks for a whole page
batch_size_whole_page(page_size, limit, collected) == page_size

\* batch_size = min(page_size, limit - len(results))
batch_size(page_size, limit, collected) == Min(page_size, limit - collected)

\* the records the server returns for skip = s when it returns n of them
Batch(s, n) == [i \in 1..n |-> s + i]

FetchInit ==
    /\ PipelineIdle
    /\ \E limit \in 0..MaxLimit, page_size \in 0..MaxPageSize :
          fcall = [fn |-> "fetch_openfda_events", args |-> <<limit, page_size>>,
                   done |-> FALSE,
                   result |-> [results |-> <<>>, skip |-> 0, log |-> <<>>, raised |-> FALSE]]

Fetching ==
    /\ fcall.fn = "fetch_openfda_events"
    /\ ~fcall.done
    /\ Len(fcall.result.results) < fcall.args[1]

\* the request of one iteration, answered with n records
Answered(n) ==
    [limit |-> batch_size(fcall.args[2], fcall.args[1], Len(fcall.result.results)),
     skip |-> fcall.result.skip,
     received |-> n]

\* an iteration whose page holds records: they are appended and skip advances
FetchPage ==
    /\ Fetching
    /\ \E n \in 1..(Answered(0).limit + 1) :
          fcall' = [fcall EXCEPT
                      !.result = [@ EXCEPT !.results = @ \o Batch(fcall.result.skip, n),
                                           !.skip = @ + n,
                                           !.log = Append(@, Answered(n))]]
    /\ PipelineUnchanged

\* an iteration whose page is empty: break, and the results are returned
FetchEmpty ==
    /\ Fetching
    /\ fcall' = [fcall EXCEPT !.result.log = Append(@, Answered(0)), !.done = TRUE]
    /\ PipelineUnchanged

\* http_get_json raises (network error, HTTP error status, malformed body)
FetchFails ==
    /\ Fetching
    /\ fcall' = [fcall EXCEPT !.result.raised = TRUE, !.done = TRUE]
    /\ PipelineUnchanged

\* len(results) >= limit: the loop ends and the results are returned
FetchReturn ==
    /\ fcall.fn = "fetch_openfda_events"
    /\ ~fcall.done
    /\ Len(fcall.result.results) >= fcall.args[1]
    /\ fcall' = [fcall EXCEPT !.done = TRUE]
    /\ PipelineUnchanged

FetchNext == FetchPage \/ FetchEmpty \/ FetchFails \/ FetchReturn

\* the function runs on: every step of it ends (the request has a timeout,
\* the sleep is finite), so a step that is possible is taken
FetchSpec == FetchInit /\ [][FetchNext]_vars /\ WF_vars(FetchNext)

\* page_size >= 1 and no response so far holds more records than requested
AsRequested ==
    /\ fcall.args[2] >= 1
    /\ \A i \in DOMAIN fcall.result.log :
          fcall.result.log[i].received <= fcall.result.log[i].limit

\* the records received before the i-th request
ReceivedBefore(i) ==
    LET log == fcall.result.log
        Sum[k \in 0..Len(log)] == IF k = 0 THEN 0 ELSE Sum[k - 1] + log[k].received
    IN  Sum[i - 1]

\* what holds of the requests and the results while the responses are as requested
FetchSafe ==
    LET log == fcall.result.log
        limit == fcall.args[1]
        page_size == fcall.args[2]
    IN  /\ Len(fcall.result.results) <= limit
        /\ \A i \in DOMAIN log :
              /\ log[i].limit = Min(page_size, limit - ReceivedBefore(i))
              /\ log[i].skip = ReceivedBefore(i)
              /\ log[i].received = 0 => i = Len(log) /\ fcall.done
        /\ \A i, j \in DOMAIN log : i # j => log[i].skip # log[j].skip
        /\ (fcall.done /\ ~fcall.result.raised) =>
              \/ Len(fcall.result.results) = limit
              \/ log # <<>> /\ log[Len(log)].received = 0

\* C30: fetch_openfda_events terminates and returns at most limit records
\* whenever page_size >= 1 and every response holds at most the number of
\* records requested: each request asks for min(page_size, limit - records
\* so far) records at offset skip, skip advances by the number of records
\* received so no offset is requested twice, and the loop stops at the first
\* empty page or once limit records are collected.
C30_TerminatesWithinLimit ==
    /\ <>(fcall.done \/ ~AsRequested)
    /\ [](AsRequested => FetchSafe)

\* a call with limit 4 and pages of 3 has returned after a full page, a
\* page cut to the one record still missing
C30_Witness ==
    /\ fcall.fn = "fetch_openfda_events"
    /\ fcall.done
    /\ fcall.args = <<4, 3>>
    /\ fcall.result.results = <<1, 2, 3, 4>>
    /\ fcall.result.log = <<[limit |-> 3, skip |-> 0, received |-> 3],
                            [limit |-> 1, skip |-> 3, received |-> 1]>>

====
